---- MODULE Spec2Model ----
(***************************************************************************)
(* Word expansion and quote removal of the posh shell                      *)
(* (psh-core/src/engine/expand.rs).                                        *)
(*                                                                         *)
(* Text (a Rust String) is a sequence of one-character strings; ranges are *)
(* records [start, end] holding the inclusive, zero-based indices of a     *)
(* RangeInclusive<usize>.                                                  *)
(***************************************************************************)
EXTENDS Integers, Sequences, FiniteSets, TLC

VARIABLES
    word,               \* the Word being expanded: [whitespace, name, expansions]
    orig,               \* the Word as it was handed to Word::expand (`self`)
    env,                \* what the engine and the process environment answer
    pc,                 \* position inside Word::expand
    expansion_indices,  \* local of expand_parameters: indices still to process
    applied,            \* the ranges handed to String::replace_range so far, in order
    s,                  \* argument of remove_quotes
    chars,              \* remove_quotes: what the Peekable<Chars> iterator still holds
    name,               \* remove_quotes: the output String built so far
    state,              \* remove_quotes: QuoteState
    is_escaped,         \* remove_quotes: escape flag
    rq_pc,              \* position inside remove_quotes
    call,               \* a call of one of the pure functions: [fn, arg]
    ret,                \* what the call returned (None while it has not)
    call_pc,            \* "call" before, "returned" after the call
    repl_pc,            \* position inside Repl::run
    line,               \* run: let mut line
    typed,              \* the lines read for the command being entered
    modes,              \* run: the arguments tokenize, lex, ast
    written,            \* what the iteration wrote for the line
    run_result,         \* what run returned (None while it runs)
    last_status,        \* Repl::last_status
    history,            \* the lines appended to engine.history
    rl_pc,              \* position inside read_line
    rl_state,           \* read_line: let mut state
    ps1,                \* read_line: the argument ps1
    abbreviations,      \* engine.abbreviations
    rl_result,          \* what read_line returned (None while it runs)
    last_key,           \* the event handled last
    last_flag_key,      \* the last event that assigned expand_abbreviations
    fc_pc,              \* position inside read_full_command
    fc_line,            \* read_full_command: let mut line
    fc_typed,           \* the lines read_line returned to read_full_command
    fc_read,            \* what the last read_line returned to read_full_command
    fc_err,             \* the error read_full_command is about to return
    fc_result,          \* what read_full_command returned (None while it runs)
    raw_mode,           \* whether the terminal is in raw mode
    guards              \* the number of RawMode values alive

vars == <<word, orig, env, pc, expansion_indices, applied,
          s, chars, name, state, is_escaped, rq_pc,
          call, ret, call_pc,
          repl_pc, line, typed, modes, written, run_result, last_status, history,
          rl_pc, rl_state, ps1, abbreviations, rl_result, last_key, last_flag_key,
          fc_pc, fc_line, fc_typed, fc_read, fc_err, fc_result, raw_mode,
          guards>>

expandVars == <<word, orig, env, pc, expansion_indices, applied>>
quoteVars == <<s, chars, name, state, is_escaped, rq_pc>>

\* what the actions of one part leave alone
callVars == <<call, ret, call_pc>>
replVars == <<repl_pc, line, typed, modes, written, run_result, last_status, history>>
readLineVars == <<rl_pc, rl_state, ps1, abbreviations, rl_result, last_key, last_flag_key>>
fullCommandVars == <<fc_pc, fc_line, fc_typed, fc_read, fc_err, fc_result, raw_mode,
          guards>>
notExpandVars == <<quoteVars, callVars, replVars, readLineVars, fullCommandVars>>
notQuoteVars == <<expandVars, callVars, replVars, readLineVars, fullCommandVars>>
notCallVars == <<expandVars, quoteVars, replVars, readLineVars, fullCommandVars>>
notReplVars == <<expandVars, quoteVars, callVars, readLineVars, fullCommandVars>>
notReadLineVars == <<expandVars, quoteVars, callVars, replVars, fullCommandVars>>
notFullCommandVars == <<expandVars, quoteVars, callVars, replVars, readLineVars>>

----------------------------------------------------------------------------
(* Bounds of the explored inputs. *)

\* number of segments (literal characters or expansion sites) of an input word
MaxSegs == 3
\* number of suffixes of a simple command
MaxSuffixes == 2
\* number of commands after the first of a pipeline
MaxPipeTail == 1
\* number of and-or lists after the first of a list
MaxListTail == 2
\* number of characters the parser left unparsed
MaxUnparsed == 3
\* number of segments of a prompt word
MaxPromptSegs == 3
\* number of characters of a directory path
MaxPath == 4
\* number of lines read for one command
MaxLines == 3
\* number of lines appended to the history
MaxHistory == 2
\* number of characters of the line being edited, before abbreviations expand
MaxLineLen == 3
\* length of the strings handed to remove_quotes
MaxLen == 5

----------------------------------------------------------------------------
(* Characters and text helpers. *)

BS == "\\"
NL == "\n"
SQ == "'"
DQ == "\""

\* Option<T>: None is the empty sequence, Some(v) the one-element sequence <<v>>
None == <<>>
Some(v) == <<v>>

RECURSIVE Concat(_)
Concat(seqs) == IF seqs = <<>> THEN <<>> ELSE Head(seqs) \o Concat(Tail(seqs))

\* [T]::join(sep)
RECURSIVE Join(_, _)
Join(strs, sep) ==
    IF strs = <<>> THEN <<>>
    ELSE IF Len(strs) = 1 THEN Head(strs)
    ELSE Head(strs) \o sep \o Join(Tail(strs), sep)

DigitChars == <<"0", "1", "2", "3", "4", "5", "6", "7", "8", "9">>

\* ToString::to_string of a non-negative exit status: its decimal digits
RECURSIVE to_string(_)
to_string(n) ==
    IF n < 10 THEN <<DigitChars[n + 1]>>
    ELSE to_string(n \div 10) \o <<DigitChars[(n % 10) + 1]>>

\* String::replace_range panics unless the range lies inside the string
RangeInBounds(str, range) ==
    /\ range.start <= range.end + 1
    /\ range.end + 1 <= Len(str)

\* String::replace_range(range, with) for an inclusive zero-based range
ReplaceRange(str, range, with) ==
    SubSeq(str, 1, range.start) \o with \o SubSeq(str, range.end + 2, Len(str))

\* str::starts_with(pat)
StartsWith(str, pat) ==
    Len(pat) <= Len(str) /\ SubSeq(str, 1, Len(pat)) = pat

\* str::contains(pat)
Contains(str, pat) ==
    \E i \in 0..(Len(str) - Len(pat)) : SubSeq(str, i + 1, i + Len(pat)) = pat

\* str::replace(pat, to) for a non-empty pattern: every non-overlapping
\* match, left to right
RECURSIVE Replace(_, _, _)
Replace(str, pat, to) ==
    IF str = <<>> THEN <<>>
    ELSE IF StartsWith(str, pat)
    THEN to \o Replace(SubSeq(str, Len(pat) + 1, Len(str)), pat, to)
    ELSE <<Head(str)>> \o Replace(Tail(str), pat, to)

\* Vec::remove(index), index zero-based
RemoveAt(seq, index) ==
    SubSeq(seq, 1, index) \o SubSeq(seq, index + 2, Len(seq))

----------------------------------------------------------------------------
(* The environment consulted by expansion. *)

\* path::home_dir(): the value of HOME
home_dir == env.HOME

\* path::is_portable_filename: only characters of the portable filename set
PortableChars == {"u", "v", "a", "z", "0", "1", ".", "_", "-"}
is_portable_filename(n) == \A i \in 1..Len(n) : n[i] \in PortableChars

\* path::system_has_user: the login names known to the system
system_has_user(n) == n \in DOMAIN env.users

\* Engine::get_value_of: the value of a variable, or None
get_value_of(n) ==
    IF n \in DOMAIN env.vars THEN env.vars[n] ELSE None

----------------------------------------------------------------------------
(* Input words, as the tokenizer records them: the spelling of the word    *)
(* and, for every expansion site, an annotation with the inclusive range   *)
(* of the site in the spelling.                                            *)

Lit(c) == [text |-> <<c>>, kind |-> "Lit", name |-> <<>>]

Segments ==
    { Lit("/"), Lit(":"), Lit(BS),
      [text |-> <<"~">>, kind |-> "Tilde", name |-> <<>>],
      [text |-> <<"~", "u">>, kind |-> "Tilde", name |-> <<"u">>],
      [text |-> <<"~", "v">>, kind |-> "Tilde", name |-> <<"v">>],
      [text |-> <<"$", "X">>, kind |-> "Parameter", name |-> <<"X">>],
      [text |-> <<"$", "?">>, kind |-> "Parameter", name |-> <<"?">>],
      [text |-> <<"$", "(", "c", ")">>, kind |-> "Command", name |-> <<"c">>],
      [text |-> <<"*">>, kind |-> "Glob", name |-> <<"*">>] }

\* a tilde-prefix starts the word or follows an unquoted ':'; a backslash
\* quotes the character after it, which is then no expansion site
WellFormedSegs(segs) ==
    \A i \in 1..Len(segs) :
        /\ segs[i].kind = "Tilde" =>
              \/ i = 1
              \/ /\ segs[i - 1] = Lit(":")
                 /\ (i > 2 => segs[i - 2] # Lit(BS))
        /\ (i > 1 /\ segs[i - 1] = Lit(BS)) => segs[i].kind = "Lit"
        /\ (i = Len(segs)) => segs[i] # Lit(BS)

RECURSIVE SegExpansions(_, _)
SegExpansions(segs, offset) ==
    IF segs = <<>> THEN <<>>
    ELSE LET h == Head(segs)
             rest == SegExpansions(Tail(segs), offset + Len(h.text))
         IN IF h.kind = "Lit" THEN rest
            ELSE <<[kind |-> h.kind,
                    range |-> [start |-> offset, end |-> offset + Len(h.text) - 1],
                    name |-> h.name]>> \o rest

MkWord(segs) ==
    [whitespace |-> <<" ">>,
     name |-> Concat([i \in 1..Len(segs) |-> segs[i].text]),
     expansions |-> SegExpansions(segs, 0)]

\* the leading whitespace of the input words
Whitespaces == { <<>>, <<" ">> }

Words ==
    { [MkWord(segs) EXCEPT !.whitespace = ws] :
        segs \in { q \in UNION { [1..n -> Segments] : n \in 1..MaxSegs } : WellFormedSegs(q) },
        ws \in Whitespaces }

Envs ==
    [HOME : { <<>>, <<"/", "h">>, <<"/", "h", "o", "m">> },
     users : [{ <<"u">> } -> { <<"/", "h", "o", "m", "e", "/", "u">>, <<"/", "u">> }],
     vars : [{ <<"X">> } -> { None, Some(<<>>), Some(<<"z", "z">>), Some(<<"a", " ", "b">>) }],
     last_status : { <<0>>, <<1, 127>> }]

EmptyWord == [whitespace |-> <<>>, name |-> <<>>, expansions |-> <<>>]

----------------------------------------------------------------------------
(* Word::expand: expand_tilde, expand_parameters, quote_removal.           *)

\* Iterator::position(|e| matches!(e, Expansion::Tilde { .. })), zero-based;
\* -1 stands for None
TildePosition(expansions) ==
    LET hits == { i \in 1..Len(expansions) : expansions[i].kind = "Tilde" }
    IN IF hits = {} THEN -1
       ELSE (CHOOSE i \in hits : \A j \in hits : i <= j) - 1

\* the text expand_tilde puts in place of a tilde-prefix; None when it
\* leaves the text alone
TildeReplacement(n) ==
    IF n # <<>> /\ is_portable_filename(n) /\ system_has_user(n)
    THEN Some(<<"/", "h", "o", "m", "e", "/">> \o n)
    ELSE IF n = <<>> THEN Some(home_dir)
    ELSE None

\* ParameterIndices without the .rev(): lowest index first
RECURSIVE ParameterIndicesAscending(_, _)
ParameterIndicesAscending(expansions, i) ==
    IF i < 0 THEN <<>>
    ELSE ParameterIndicesAscending(expansions, i - 1)
         \o (IF expansions[i + 1].kind = "Parameter" THEN <<i>> ELSE <<>>)

\* the indices collected by the first loop of expand_parameters:
\* enumerate().rev() filtered on Expansion::Parameter, so highest index first
RECURSIVE ParameterIndices(_, _)
ParameterIndices(expansions, i) ==
    IF i < 0 THEN <<>>
    ELSE (IF expansions[i + 1].kind = "Parameter" THEN <<i>> ELSE <<>>)
         \o ParameterIndices(expansions, i - 1)

\* the value expand_parameters puts in place of parameter n
ParameterValue(n) ==
    IF n = <<"?">>
    THEN Join([i \in 1..Len(env.last_status) |-> to_string(env.last_status[i])], <<"|">>)
    ELSE IF get_value_of(n) # None THEN get_value_of(n)[1]
    ELSE <<>>

----------------------------------------------------------------------------
(* remove_quotes: one pass over the characters with a quote state and an   *)
(* escape flag.  The arms of the match are tried in source order.          *)

\* chars.peek()
Peek(cs) == IF cs = <<>> THEN None ELSE Some(Head(cs))

\* ('\'', QuoteState::Single, _)
ArmCloseSingle(c, st, esc) == c = SQ /\ st = "Single"

\* ArmOpenSingle matching whatever the escape flag: ('\'', QuoteState::None, _)
ArmOpenSingleEscaped(c, st, esc) == c = SQ /\ st = "None"

\* ('\'', QuoteState::None, false)
ArmOpenSingle(c, st, esc) == c = SQ /\ st = "None" /\ ~esc

\* ('"', QuoteState::Double, false)
ArmCloseDouble(c, st, esc) == c = DQ /\ st = "Double" /\ ~esc

\* ('"', QuoteState::None, false)
ArmOpenDouble(c, st, esc) == c = DQ /\ st = "None" /\ ~esc

\* ArmLineContinuation outside quotes only
ArmLineContinuationUnquoted(c, st, esc, pk) ==
    c = BS /\ st = "None" /\ ~esc /\ pk = Some(NL)

\* ('\\', QuoteState::None | QuoteState::Double, false) if peek is '\n'
ArmLineContinuation(c, st, esc, pk) ==
    c = BS /\ st \in {"None", "Double"} /\ ~esc /\ pk = Some(NL)

\* ArmEscape matching whatever the quote state: ('\\', _, false)
ArmEscapeAnywhere(c, st, esc) == c = BS /\ ~esc

\* ('\\', QuoteState::None, false)
ArmEscape(c, st, esc) == c = BS /\ st = "None" /\ ~esc

\* ArmEscapeInDouble without the guard on the next character
ArmEscapeInDoubleAlways(c, st, esc, pk) == c = BS /\ st = "Double" /\ ~esc

\* ('\\', QuoteState::Double, false) if peek is '"'
ArmEscapeInDouble(c, st, esc, pk) ==
    c = BS /\ st = "Double" /\ ~esc /\ pk = Some(DQ)

\* one iteration of `while let Some(c) = chars.next()`; r holds the locals
RQStep(r) ==
    LET c == Head(r.chars)
        rest == Tail(r.chars)
        st == r.state
        esc == r.is_escaped
        pk == Peek(rest)
    IN IF ArmCloseSingle(c, st, esc)
       THEN [r EXCEPT !.chars = rest, !.state = "None", !.is_escaped = FALSE]
       ELSE IF ArmOpenSingle(c, st, esc)
       THEN [r EXCEPT !.chars = rest, !.state = "Single", !.is_escaped = FALSE]
       ELSE IF ArmCloseDouble(c, st, esc)
       THEN [r EXCEPT !.chars = rest, !.state = "None", !.is_escaped = FALSE]
       ELSE IF ArmOpenDouble(c, st, esc)
       THEN [r EXCEPT !.chars = rest, !.state = "Double", !.is_escaped = FALSE]
       ELSE IF ArmLineContinuation(c, st, esc, pk)
       THEN [r EXCEPT !.chars = Tail(rest), !.is_escaped = FALSE]
       ELSE IF ArmEscape(c, st, esc)
       THEN [r EXCEPT !.chars = rest, !.is_escaped = TRUE]
       ELSE IF ArmEscapeInDouble(c, st, esc, pk)
       THEN [r EXCEPT !.chars = rest, !.is_escaped = TRUE]
       ELSE [r EXCEPT !.chars = rest, !.name = Append(r.name, c), !.is_escaped = FALSE]

RECURSIVE RQRun(_)
RQRun(r) == IF r.chars = <<>> THEN r ELSE RQRun(RQStep(r))

\* the locals of remove_quotes(str) before the loop
RQStart(str) == [chars |-> str, name |-> <<>>, state |-> "None", is_escaped |-> FALSE]

remove_quotes(str) == RQRun(RQStart(str)).name

----------------------------------------------------------------------------
(* Inputs of remove_quotes. *)

QuoteAlphabet == {"a", "$", BS, SQ, DQ, NL}

\* the inputs of tests::backslash_removal
TestInputs ==
    { <<"h", "e", "l", "l", "o", BS, " ", "t", "h", "e", "r", "e">>,
      <<SQ, "h", "e", "l", "l", "o", BS, " ", "t", "h", "e", "r", "e", SQ>>,
      <<DQ, "h", "e", "l", "l", "o", BS, " ", "t", "h", "e", "r", "e", DQ>>,
      <<DQ, SQ, "f", "o", "o", SQ, " ", BS, DQ, "b", "a", "r", BS, DQ, DQ>> }

QuoteInputs ==
    UNION { [1..n -> QuoteAlphabet] : n \in 0..MaxLen } \cup TestInputs

----------------------------------------------------------------------------
(* Word::expand, one action per stage (and per iteration of the loop of    *)
(* expand_parameters).                                                     *)

\* no word is being expanded
ExpandIdle ==
    /\ word = EmptyWord
    /\ orig = EmptyWord
    /\ pc = "idle"
    /\ expansion_indices = <<>>
    /\ applied = <<>>

\* remove_quotes is not running
QuotesIdle ==
    /\ s = <<>>
    /\ chars = <<>>
    /\ name = <<>>
    /\ state = "None"
    /\ is_escaped = FALSE
    /\ rq_pc = "idle"

\* no function is being called
CallsIdle ==
    /\ call = [fn |-> "none"]
    /\ ret = None
    /\ call_pc = "idle"

\* Repl::run is not running
ReplIdle ==
    /\ repl_pc = "idle"
    /\ line = <<>>
    /\ typed = <<>>
    /\ modes = [tokenize |-> FALSE, lex |-> FALSE, ast |-> FALSE]
    /\ written = None
    /\ run_result = None
    /\ last_status = None
    /\ history = <<>>

\* read_line is not running
ReadLineIdle ==
    /\ rl_pc = "idle"
    /\ rl_state = [line |-> <<>>, index |-> <<"0">>, about_to_exit |-> FALSE,
                   cancelled |-> FALSE, cleared |-> FALSE,
                   expand_abbreviations |-> TRUE]
    /\ ps1 = TRUE
    /\ abbreviations = <<>>
    /\ rl_result = None
    /\ last_key = "none"
    /\ last_flag_key = "none"

\* read_full_command is not running
FullCommandIdle ==
    /\ fc_pc = "idle"
    /\ fc_line = <<>>
    /\ fc_typed = <<>>
    /\ fc_read = None
    /\ fc_err = None
    /\ fc_result = None
    /\ raw_mode = FALSE
    /\ guards = 0

\* an engine without variables
NoEnv == [HOME |-> <<>>, users |-> <<>>, vars |-> <<>>, last_status |-> <<0>>]

Init ==
    /\ word \in Words
    /\ orig = word
    /\ env \in Envs
    /\ pc = "expand_tilde"
    /\ expansion_indices = <<>>
    /\ applied = <<>>
    /\ QuotesIdle
    /\ CallsIdle
    /\ ReplIdle
    /\ ReadLineIdle
    /\ FullCommandIdle

\* expand_tilde(word): the word it returns, whether it returned at all
\* (ok is FALSE when replace_range panicked) and the ranges it handed to
\* replace_range
expand_tilde(w) ==
    LET index == TildePosition(w.expansions)
    IN IF index = -1
       THEN [word |-> w, ok |-> TRUE, ranges |-> <<>>]
       ELSE LET e == w.expansions[index + 1]
                removed == RemoveAt(w.expansions, index)
                with == TildeReplacement(e.name)
            IN IF with = None
               THEN [word |-> [w EXCEPT !.expansions = removed], ok |-> TRUE, ranges |-> <<>>]
               ELSE IF RangeInBounds(w.name, e.range)
               THEN [word |-> [w EXCEPT !.expansions = removed,
                                        !.name = ReplaceRange(w.name, e.range, with[1])],
                     ok |-> TRUE, ranges |-> <<e.range>>]
               ELSE [word |-> [w EXCEPT !.expansions = removed],
                     ok |-> FALSE, ranges |-> <<e.range>>]

\* expand_parameter whose `$?` takes the statuses out of the engine
expand_parameter_taking_status(w, index, engine) ==
    IF index >= Len(w.expansions)
    THEN [word |-> w, ok |-> FALSE, ranges |-> <<>>, engine |-> engine]
    ELSE LET e == w.expansions[index + 1]
             removed == RemoveAt(w.expansions, index)
             after == IF e.name = <<"?">> THEN [engine EXCEPT !.last_status = <<>>]
                      ELSE engine
         IN IF e.kind # "Parameter"
            THEN [word |-> [w EXCEPT !.expansions = removed],
                  ok |-> FALSE, ranges |-> <<>>, engine |-> engine]
            ELSE IF RangeInBounds(w.name, e.range)
            THEN [word |-> [w EXCEPT !.expansions = removed,
                                     !.name = ReplaceRange(w.name, e.range,
                                                           ParameterValue(e.name))],
                  ok |-> TRUE, ranges |-> <<e.range>>, engine |-> after]
            ELSE [word |-> [w EXCEPT !.expansions = removed],
                  ok |-> FALSE, ranges |-> <<e.range>>, engine |-> after]

\* one iteration of `for index in expansion_indices` of expand_parameters,
\* with the engine it leaves behind (the engine is passed as &mut)
expand_parameter(w, index, engine) ==
    IF index >= Len(w.expansions)
    THEN \* Vec::remove panics
         [word |-> w, ok |-> FALSE, ranges |-> <<>>, engine |-> engine]
    ELSE LET e == w.expansions[index + 1]
             removed == RemoveAt(w.expansions, index)
         IN IF e.kind # "Parameter"
            THEN \* unreachable!()
                 [word |-> [w EXCEPT !.expansions = removed],
                  ok |-> FALSE, ranges |-> <<>>, engine |-> engine]
            ELSE IF RangeInBounds(w.name, e.range)
            THEN [word |-> [w EXCEPT !.expansions = removed,
                                     !.name = ReplaceRange(w.name, e.range,
                                                           ParameterValue(e.name))],
                  ok |-> TRUE, ranges |-> <<e.range>>, engine |-> engine]
            ELSE [word |-> [w EXCEPT !.expansions = removed],
                  ok |-> FALSE, ranges |-> <<e.range>>, engine |-> engine]

\* quote_removal that builds the word anew with Word::new(name, "")
quote_removal_new_word(w) ==
    [name |-> remove_quotes(w.name), whitespace |-> <<>>, expansions |-> w.expansions]

\* quote_removal(word)
quote_removal(w) ==
    [name |-> remove_quotes(w.name),
     whitespace |-> w.whitespace,
     expansions |-> w.expansions]

\* expand_tilde(self)
ExpandTilde ==
    /\ pc = "expand_tilde"
    /\ LET r == expand_tilde(word)
       IN /\ word' = r.word
          /\ applied' = applied \o r.ranges
          /\ pc' = IF r.ok THEN "expand_parameters" ELSE "panicked"
    /\ UNCHANGED <<orig, env, expansion_indices>>
    /\ UNCHANGED notExpandVars

\* expand_parameters: the loop that collects expansion_indices
CollectParameters ==
    /\ pc = "expand_parameters"
    /\ expansion_indices' = ParameterIndices(word.expansions, Len(word.expansions) - 1)
    /\ pc' = "parameter_loop"
    /\ UNCHANGED <<word, orig, env, applied>>
    /\ UNCHANGED notExpandVars

\* expand_parameters: one iteration of `for index in expansion_indices`
ExpandParameter ==
    /\ pc = "parameter_loop"
    /\ expansion_indices # <<>>
    /\ LET r == expand_parameter(word, Head(expansion_indices), env)
       IN /\ expansion_indices' = Tail(expansion_indices)
          /\ word' = r.word
          /\ env' = r.engine
          /\ applied' = applied \o r.ranges
          /\ pc' = IF r.ok THEN "parameter_loop" ELSE "panicked"
    /\ UNCHANGED orig
    /\ UNCHANGED notExpandVars

\* expand_parameters returns the word
ParametersExpanded ==
    /\ pc = "parameter_loop"
    /\ expansion_indices = <<>>
    /\ pc' = "quote_removal"
    /\ UNCHANGED <<word, orig, env, expansion_indices, applied>>
    /\ UNCHANGED notExpandVars

\* quote_removal(parameter_expanded), the value Word::expand returns
QuoteRemoval ==
    /\ pc = "quote_removal"
    /\ word' = quote_removal(word)
    /\ pc' = "done"
    /\ UNCHANGED <<orig, env, expansion_indices, applied>>
    /\ UNCHANGED notExpandVars

Next ==
    \/ ExpandTilde
    \/ CollectParameters
    \/ ExpandParameter
    \/ ParametersExpanded
    \/ QuoteRemoval

Spec == Init /\ [][Next]_vars

----------------------------------------------------------------------------
(* remove_quotes on its own, one action per iteration of its loop.         *)

InitQuotes ==
    /\ ExpandIdle
    /\ env = NoEnv
    /\ s \in QuoteInputs
    /\ chars = s
    /\ name = <<>>
    /\ state = "None"
    /\ is_escaped = FALSE
    /\ rq_pc = "loop"
    /\ CallsIdle
    /\ ReplIdle
    /\ ReadLineIdle
    /\ FullCommandIdle

RemoveQuotesStep ==
    /\ rq_pc = "loop"
    /\ chars # <<>>
    /\ LET r == RQStep([chars |-> chars, name |-> name,
                        state |-> state, is_escaped |-> is_escaped])
       IN /\ chars' = r.chars
          /\ name' = r.name
          /\ state' = r.state
          /\ is_escaped' = r.is_escaped
    /\ UNCHANGED <<s, rq_pc>>
    /\ UNCHANGED notQuoteVars

RemoveQuotesReturn ==
    /\ rq_pc = "loop"
    /\ chars = <<>>
    /\ rq_pc' = "done"
    /\ UNCHANGED <<s, chars, name, state, is_escaped>>
    /\ UNCHANGED notQuoteVars

NextQuotes == RemoveQuotesStep \/ RemoveQuotesReturn

SpecQuotes == InitQuotes /\ [][NextQuotes]_vars

----------------------------------------------------------------------------
(* The pure functions of the repository, each applied in one step to an    *)
(* argument drawn from a bounded set: `call` holds the function and its    *)
(* argument, `ret` the value the call returned.  A panic of the callee is  *)
(* ret.ok = FALSE.                                                         *)

\* expand_parameters: `for index in expansion_indices`
RECURSIVE ParameterLoop(_, _, _)
ParameterLoop(w, indices, engine) ==
    IF indices = <<>>
    THEN [word |-> w, ok |-> TRUE, engine |-> engine]
    ELSE LET r == expand_parameter(w, Head(indices), engine)
         IN IF r.ok
            THEN ParameterLoop(r.word, Tail(indices), r.engine)
            ELSE [word |-> r.word, ok |-> FALSE, engine |-> r.engine]

\* expand_parameters(word, engine)
expand_parameters(w, engine) ==
    ParameterLoop(w, ParameterIndices(w.expansions, Len(w.expansions) - 1), engine)

\* a fallible value mapped through F, the failure carried along
MapResult(r, F(_)) == [value |-> F(r.value), ok |-> r.ok]

\* two fallible values combined by F; both must have succeeded
ZipResult(a, b, F(_, _)) == [value |-> F(a.value, b.value), ok |-> a.ok /\ b.ok]

\* the values of a sequence of fallible values; all must have succeeded
Collect(rs) ==
    [value |-> [i \in 1..Len(rs) |-> rs[i].value],
     ok |-> \A i \in 1..Len(rs) : rs[i].ok]

\* the last line of Word::expand: quote_removal(&mut self); self
WordQuoteRemoval(p) ==
    IF ~p.ok THEN [value |-> p.word, ok |-> FALSE]
    ELSE [value |-> quote_removal(p.word), ok |-> TRUE]

\* the second line of Word::expand: expand_parameters(&mut self, engine)
WordParameters(t) ==
    IF ~t.ok THEN [value |-> t.word, ok |-> FALSE]
    ELSE WordQuoteRemoval(expand_parameters(t.word, env))

\* <Word as Expand>::expand
Word_expand(w) == WordParameters(expand_tilde(w))

\* Option::map(|w| w.expand(engine))
OptionWord_expand(o) ==
    IF o = None THEN [value |-> None, ok |-> TRUE]
    ELSE MapResult(Word_expand(o[1]), LAMBDA v : Some(v))

\* <Redirection as Expand>::expand
Redirection_expand(r) ==
    IF r.tag = "File"
    THEN MapResult(Word_expand(r.target), LAMBDA target : [r EXCEPT !.target = target])
    ELSE ZipResult(Word_expand(r.end), Word_expand(r.content),
                   LAMBDA end, content : [r EXCEPT !.end = end, !.content = content])

\* <VariableAssignment as Expand>::expand
VariableAssignment_expand(a) ==
    MapResult(OptionWord_expand(a.rhs), LAMBDA rhs : [a EXCEPT !.rhs = rhs])

\* <CmdPrefix as Expand>::expand
CmdPrefix_expand(p) ==
    IF p.tag = "Redirection"
    THEN MapResult(Redirection_expand(p.r), LAMBDA r : [p EXCEPT !.r = r])
    ELSE MapResult(VariableAssignment_expand(p.a), LAMBDA a : [p EXCEPT !.a = a])

\* <CmdSuffix as Expand>::expand
CmdSuffix_expand(x) ==
    IF x.tag = "Redirection"
    THEN MapResult(Redirection_expand(x.r), LAMBDA r : [x EXCEPT !.r = r])
    ELSE MapResult(Word_expand(x.w), LAMBDA w : [x EXCEPT !.w = w])

\* a test for an escaped newline anywhere in the word
is_only_escaped_newlines_anywhere(w) == Contains(w.name, <<BS, NL>>)

\* w.name().replace("\\\n", "").is_empty()
is_only_escaped_newlines(w) == Replace(w.name, <<BS, NL>>, <<>>) = <<>>

\* the suffixes SimpleCommand::expand does not `continue` over
KeptSuffixes(suffixes) ==
    SelectSeq(suffixes, LAMBDA x : ~(x.tag = "Word" /\ is_only_escaped_newlines(x.w)))

\* the suffixes loop of SimpleCommand::expand
Suffixes_expand(kept) == Collect([i \in 1..Len(kept) |-> CmdSuffix_expand(kept[i])])

\* self.prefixes.into_iter().map(|p| p.expand(engine)).collect()
Prefixes_expand(prefixes) ==
    Collect([i \in 1..Len(prefixes) |-> CmdPrefix_expand(prefixes[i])])

\* <SimpleCommand as Expand>::expand
SimpleCommand_expand(cmd) ==
    ZipResult(ZipResult(Suffixes_expand(KeptSuffixes(cmd.suffixes)),
                        OptionWord_expand(cmd.name),
                        LAMBDA suffixes, nm : [name |-> nm, suffixes |-> suffixes]),
              Prefixes_expand(cmd.prefixes),
              LAMBDA sn, prefixes : [name |-> sn.name,
                                     prefixes |-> prefixes,
                                     suffixes |-> sn.suffixes])

\* <Command as Expand>::expand
Command_expand(c) ==
    IF c.tag = "Simple"
    THEN MapResult(SimpleCommand_expand(c.cmd), LAMBDA cmd : [c EXCEPT !.cmd = cmd])
    ELSE \* todo!()
         [value |-> c, ok |-> FALSE]

\* the tail of PipeSequence::expand: (pipe, cmd.expand(engine)) per element
PipeTail_expand(tail) ==
    MapResult(Collect([i \in 1..Len(tail) |-> Command_expand(tail[i].cmd)]),
              LAMBDA cmds : [i \in 1..Len(tail) |-> [tail[i] EXCEPT !.cmd = cmds[i]]])

\* <PipeSequence as Expand>::expand
PipeSequence_expand(q) ==
    ZipResult(Command_expand(q.head), PipeTail_expand(q.tail),
              LAMBDA head, tail : [head |-> head, tail |-> tail])

\* <Pipeline as Expand>::expand
Pipeline_expand(p) ==
    MapResult(PipeSequence_expand(p.sequence),
              LAMBDA sequence : [bang |-> p.bang, sequence |-> sequence])

\* <SeparatorOp as Default>::default
SeparatorOp_default == [tag |-> "Sync", whitespace |-> <<>>]

\* the loop that pushes every and-or list with the separator read before it
ListTailLoopPairingPreceding(items, prev_list, tail, final_separator) ==
    IF tail = <<>>
    THEN Append(items, <<prev_list, final_separator>>)
    ELSE Append(items, <<prev_list, final_separator>>)
         \o [i \in 1..Len(tail) |-> <<tail[i].and_or_list, tail[i].sep>>]

\* list_with_separator: `for (sep, and_or_list) in list.tail` and the push
\* after it
RECURSIVE ListTailLoop(_, _, _, _)
ListTailLoop(items, prev_list, tail, final_separator) ==
    IF tail = <<>>
    THEN Append(items, <<prev_list, final_separator>>)
    ELSE ListTailLoop(Append(items, <<prev_list, Head(tail).sep>>),
                      Head(tail).and_or_list, Tail(tail), final_separator)

\* CompleteCommand::list_with_separator
list_with_separator(self) ==
    IF self.tag = "Comment" THEN <<>>
    ELSE LET final_separator == IF self.separator_op # None THEN self.separator_op[1]
                                ELSE SeparatorOp_default
         IN IF self.list.tail = <<>>
            THEN <<<<self.list.head, final_separator>>>>
            ELSE ListTailLoop(<<>>, self.list.head, self.list.tail, final_separator)

\* char::is_whitespace, on the characters of UnparsedAlphabet
is_whitespace(c) == c \in { " ", "\t", "\n", "\r", "\f" }

\* SyntaxTree::is_ok with any in the place of all
is_ok_any(self) == \E i \in 1..Len(self.unparsed) : is_whitespace(self.unparsed[i])

\* SyntaxTree::is_ok
is_ok(self) == \A i \in 1..Len(self.unparsed) : is_whitespace(self.unparsed[i])

\* Result::Ok and Result::Err
Ok(v) == [tag |-> "Ok", v |-> v]
Err(e) == [tag |-> "Err", e |-> e]

\* enum Error: a variant and the text it holds (none, <<>>, for a variant
\* without a field); Incomplete and CancelledLine are the variants of
\* psh_core::Error that the enum of posh-core does not have
Error(variant, with) == [variant |-> variant, with |-> with, kind |-> "None"]

\* Error::Io(e): of the io::Error the text of its Display and its kind
Io(e) == [variant |-> "Io", with |-> e.message, kind |-> e.kind]

\* Error::Var(VarError::NotPresent), what `?` makes of the error of env::var
VarNotPresent ==
    Error("Var", <<"N", "o", "t", "P", "r", "e", "s", "e", "n", "t">>)

\* matches!(r, Err(Error::Incomplete(_)))
IsIncomplete(r) == r.tag = "Err" /\ r.e.variant = "Incomplete"

\* matches!(r, Err(Error::Io(_)))
IsIo(r) == r.tag = "Err" /\ r.e.variant = "Io"

\* the io::Error values met: the kind and the text of its Display
NotFound ==
    [kind |-> "NotFound",
     message |->
        <<"N", "o", " ", "s", "u", "c", "h", " ", "f", "i", "l", "e", " ", "o",
          "r", " ", "d", "i", "r", "e", "c", "t", "o", "r", "y", " ", "(", "o",
          "s", " ", "e", "r", "r", "o", "r", " ", "2", ")">>]
PermissionDenied ==
    [kind |-> "PermissionDenied",
     message |->
        <<"P", "e", "r", "m", "i", "s", "s", "i", "o", "n", " ", "d", "e", "n",
          "i", "e", "d", " ", "(", "o", "s", " ", "e", "r", "r", "o", "r", " ",
          "1", "3", ")">>]
NotATty ==
    [kind |-> "Uncategorized",
     message |->
        <<"I", "n", "a", "p", "p", "r", "o", "p", "r", "i", "a", "t", "e", " ",
          "i", "o", "c", "t", "l", " ", "f", "o", "r", " ", "d", "e", "v", "i",
          "c", "e", " ", "(", "o", "s", " ", "e", "r", "r", "o", "r", " ", "2",
          "5", ")">>]

\* <Error as Display>::fmt: the text written for {e}
Display(e) ==
    CASE e.variant = "Io" -> e.with
      [] e.variant = "NoHome" ->
            <<"C", "o", "u", "l", "d", " ", "n", "o", "t", " ", "r", "e", "a", "d",
              " ", "$", "H", "O", "M", "E">>
      [] e.variant = "InvalidHistfile" ->
            <<"$", "P", "O", "S", "H", "_", "H", "I", "S", "T", "F", "I", "L", "E",
              " ", "c", "o", "n", "t", "a", "i", "n", "s", " ", "i", "n", "v", "a",
              "l", "i", "d", " ", "p", "a", "t", "h", ":", " ">>
            \o e.with
      [] e.variant = "HistoryOutOfBounds" ->
            <<"T", "r", "i", "e", "d", " ", "t", "o", " ", "r", "e", "a", "d", " ",
              "b", "e", "y", "o", "n", "d", " ", "t", "h", "e", " ", "h", "i", "s",
              "t", "o", "r", "y", " ", "b", "o", "u", "n", "d", "s", ".">>
      [] e.variant = "UnknownCommand" ->
            <<"U", "n", "k", "n", "o", "w", "n", " ", "c", "o", "m", "m", "a", "n",
              "d", ":", " ">>
            \o e.with
      [] e.variant = "Unimplemented" -> e.with
      [] e.variant = "SyntaxError" ->
            <<"s", "y", "n", "t", "a", "x", " ", "e", "r", "r", "o", "r", ":", " ">>
            \o e.with

\* path::compress_tilde(cwd): the directory with a leading home directory
\* written as `~`
compress_tilde(cwd) ==
    IF home_dir # <<>> /\ StartsWith(cwd, home_dir)
    THEN <<"~">> \o SubSeq(cwd, Len(home_dir) + 1, Len(cwd))
    ELSE cwd

\* `\w`
PromptCwd == <<BS, "w">>

\* expand_prompt that expands the word as a command word is expanded
expand_prompt_as_word(w, pwd) ==
    LET expanded == Word_expand(w)
        input == expanded.value.name
    IN IF ~expanded.ok THEN [value |-> None, ok |-> FALSE]
       ELSE IF Contains(input, PromptCwd)
       THEN IF pwd = None THEN [value |-> Err(VarNotPresent), ok |-> TRUE]
            ELSE [value |-> Ok(Replace(input, PromptCwd, compress_tilde(pwd[1]))),
                  ok |-> TRUE]
       ELSE [value |-> Ok(input), ok |-> TRUE]

\* expand_prompt(word, engine), PWD being pwd
expand_prompt(w, pwd) ==
    LET expanded == expand_parameters(w, env)
        input == expanded.word.name
    IN IF ~expanded.ok THEN [value |-> None, ok |-> FALSE]
       ELSE IF Contains(input, PromptCwd)
       THEN IF pwd = None THEN [value |-> Err(VarNotPresent), ok |-> TRUE]
            ELSE [value |-> Ok(Replace(input, PromptCwd, compress_tilde(pwd[1]))),
                  ok |-> TRUE]
       ELSE [value |-> Ok(input), ok |-> TRUE]

\* str::replacen(pat, to, count), for count = 1 or a non-empty pattern
RECURSIVE Replacen(_, _, _, _)
Replacen(str, pat, to, count) ==
    IF count = 0 THEN str
    ELSE IF StartsWith(str, pat)
    THEN to \o Replacen(SubSeq(str, Len(pat) + 1, Len(str)), pat, to, count - 1)
    ELSE IF str = <<>> THEN <<>>
    ELSE <<Head(str)>> \o Replacen(Tail(str), pat, to, count)

\* path::home_dir of src/src/path.rs, HOME being home
path_home_dir(home) == IF home = None THEN Err(Error("NoHome", <<>>)) ELSE Ok(home[1])

\* <String as path::Expand>::expand, HOME being home
String_expand(self, home) ==
    IF path_home_dir(home).tag = "Err" THEN path_home_dir(home)
    ELSE Ok(Replacen(self, path_home_dir(home).v, <<"~">>, 1))

\* the nodes the calls are made on
WordOf(segs, ws) == [MkWord(segs) EXCEPT !.whitespace = ws]

ParameterX == [text |-> <<"$", "X">>, kind |-> "Parameter", name |-> <<"X">>]

TildePrefix == [text |-> <<"~">>, kind |-> "Tilde", name |-> <<>>]

Redirections ==
    { [tag |-> "File", whitespace |-> <<" ">>, input_fd |-> Some("Stderr"),
       ty |-> "Output", target |-> WordOf(<<ParameterX>>, <<>>)],
      [tag |-> "Here", whitespace |-> <<" ", " ">>, input_fd |-> None,
       ty |-> "StripTabs", end |-> WordOf(<<Lit("E")>>, <<>>),
       content |-> WordOf(<<ParameterX, Lit(NL)>>, <<>>)] }

FileRedirection == CHOOSE r \in Redirections : r.tag = "File"

CmdSuffixes ==
    { [tag |-> "Word", w |-> WordOf(<<Lit("/")>>, <<" ">>)],
      [tag |-> "Word", w |-> WordOf(<<Lit(BS), Lit(NL)>>, <<" ">>)],
      [tag |-> "Word", w |-> WordOf(<<Lit(BS), Lit(NL), Lit("/")>>, <<" ">>)],
      [tag |-> "Word", w |-> WordOf(<<>>, <<" ">>)],
      [tag |-> "Word", w |-> WordOf(<<Lit(DQ), ParameterX, Lit(DQ)>>, <<" ", " ">>)],
      [tag |-> "Redirection", r |-> FileRedirection] }

CmdPrefixes ==
    { [tag |-> "Redirection", r |-> r] : r \in Redirections }
    \cup { [tag |-> "Assignment",
            a |-> [whitespace |-> <<" ">>, lhs |-> <<"V">>, rhs |-> rhs]] :
             rhs \in { None, Some(WordOf(<<ParameterX>>, <<>>)) } }

SimpleCommands ==
    [name : { None, Some(WordOf(<<TildePrefix>>, <<" ">>)) },
     prefixes : { <<>> } \cup { <<p>> : p \in CmdPrefixes },
     suffixes : UNION { [1..n -> CmdSuffixes] : n \in 0..MaxSuffixes }]

CompoundKinds == { "Brace", "Subshell", "For", "Case", "If", "While", "Until" }

Commands ==
    { [tag |-> "Simple", cmd |-> c] : c \in SimpleCommands }
    \cup { [tag |-> "Compound", kind |-> k, redirections |-> rs] :
             k \in CompoundKinds, rs \in { <<>>, <<FileRedirection>> } }
    \cup { [tag |-> "FunctionDefinition"] }

\* the commands after the first `|`
TailCommands ==
    { [tag |-> "Simple",
       cmd |-> [name |-> Some(WordOf(<<Lit("/")>>, <<" ">>)),
                prefixes |-> <<>>, suffixes |-> <<>>]],
      [tag |-> "Compound", kind |-> "Brace", redirections |-> <<>>],
      [tag |-> "FunctionDefinition"] }

Pipelines ==
    [bang : { None, Some([whitespace |-> <<>>]) },
     sequence : [head : Commands,
                 tail : UNION { [1..n -> { [pipe |-> [whitespace |-> <<" ">>],
                                            linebreak |-> [newlines |-> None],
                                            cmd |-> c] : c \in TailCommands }] :
                                n \in 0..MaxPipeTail }]]

\* the and-or lists of a list, told apart by the name of their one command
AndOrLists == { [head |-> n, tail |-> <<>>] : n \in { "a", "b" } }

SeparatorOps ==
    { [tag |-> "Sync", whitespace |-> <<>>],
      [tag |-> "Sync", whitespace |-> <<" ">>],
      [tag |-> "Async", whitespace |-> <<>>] }

CompleteCommandInputs ==
    { [tag |-> "List", list |-> l, separator_op |-> o, comment |-> None] :
        l \in [head : AndOrLists,
               tail : UNION { [1..n -> [sep : SeparatorOps, and_or_list : AndOrLists]] :
                              n \in 0..MaxListTail }],
        o \in { None } \cup { Some(x) : x \in SeparatorOps } }
    \cup { [tag |-> "Comment", comment |-> <<"#">>] }

UnparsedAlphabet == { " ", "\t", "\n", "a", ")" }

SyntaxTrees ==
    [leading : { [newlines |-> None], [newlines |-> Some(<<NL>>)] },
     commands : { None, Some("a") },
     unparsed : UNION { [1..n -> UnparsedAlphabet] : n \in 0..MaxUnparsed }]

\* the words of a prompt
PromptSegments ==
    { Lit(DQ), Lit("w"), [text |-> PromptCwd, kind |-> "Lit", name |-> <<>>],
      ParameterX, TildePrefix,
      [text |-> <<"$", "?">>, kind |-> "Parameter", name |-> <<"?">>] }

PromptWords ==
    { WordOf(segs, <<>>) : segs \in UNION { [1..n -> PromptSegments] : n \in 1..MaxPromptSegs } }

PromptEnvs ==
    { [HOME |-> <<"/", "h">>, users |-> <<>>, vars |-> [n \in { <<"X">> } |-> x],
       last_status |-> <<1, 127>>] :
        x \in { None, Some(PromptCwd), Some(<<"z", "z">>) } }

\* PWD
WorkingDirectories == { None, Some(<<"/", "h", "/", "m">>), Some(<<"/", "m">>) }

\* the directories of a path and the values of HOME
PathAlphabet == { "/", "h", "m" }

Paths ==
    { p \in UNION { [1..n -> PathAlphabet] : n \in 1..MaxPath } : p[1] = "/" }

Homes == { None, Some(<<>>), Some(<<"/", "h">>) }

\* the engines the calls are made against
CallEnvs ==
    { e \in Envs : /\ Len(e.HOME) = 2
                   /\ e.users[<<"u">>] = <<"/", "u">>
                   /\ e.last_status = <<0>> }

InitCalls ==
    /\ ExpandIdle
    /\ QuotesIdle
    /\ ret = None
    /\ call_pc = "call"
    /\ ReplIdle
    /\ ReadLineIdle
    /\ FullCommandIdle
    /\ \/ /\ call \in { [fn |-> "Pipeline::expand", arg |-> p] : p \in Pipelines }
          /\ env \in CallEnvs
       \/ /\ call \in { [fn |-> "list_with_separator", arg |-> c] :
                           c \in CompleteCommandInputs }
          /\ env = NoEnv
       \/ /\ call \in { [fn |-> "is_ok", arg |-> t] : t \in SyntaxTrees }
          /\ env = NoEnv
       \/ /\ call \in { [fn |-> "expand_prompt", arg |-> [word |-> w, PWD |-> d]] :
                           w \in PromptWords, d \in WorkingDirectories }
          /\ env \in PromptEnvs
       \/ /\ call \in { [fn |-> "String::expand", arg |-> [self |-> p, HOME |-> h]] :
                           p \in Paths, h \in Homes }
          /\ env = NoEnv

\* pipeline.expand(engine)
CallPipelineExpand ==
    /\ call_pc = "call"
    /\ call.fn = "Pipeline::expand"
    /\ ret' = Pipeline_expand(call.arg)
    /\ call_pc' = "returned"
    /\ UNCHANGED call
    /\ UNCHANGED notCallVars

\* complete_command.list_with_separator()
CallListWithSeparator ==
    /\ call_pc = "call"
    /\ call.fn = "list_with_separator"
    /\ ret' = [value |-> list_with_separator(call.arg), ok |-> TRUE]
    /\ call_pc' = "returned"
    /\ UNCHANGED call
    /\ UNCHANGED notCallVars

\* syntax_tree.is_ok()
CallIsOk ==
    /\ call_pc = "call"
    /\ call.fn = "is_ok"
    /\ ret' = [value |-> is_ok(call.arg), ok |-> TRUE]
    /\ call_pc' = "returned"
    /\ UNCHANGED call
    /\ UNCHANGED notCallVars

\* expand_prompt(word, engine)
CallExpandPrompt ==
    /\ call_pc = "call"
    /\ call.fn = "expand_prompt"
    /\ ret' = expand_prompt(call.arg.word, call.arg.PWD)
    /\ call_pc' = "returned"
    /\ UNCHANGED call
    /\ UNCHANGED notCallVars

\* env::current_dir()?.display().to_string().expand()
CallStringExpand ==
    /\ call_pc = "call"
    /\ call.fn = "String::expand"
    /\ ret' = [value |-> String_expand(call.arg.self, call.arg.HOME), ok |-> TRUE]
    /\ call_pc' = "returned"
    /\ UNCHANGED call
    /\ UNCHANGED notCallVars

NextCalls ==
    \/ CallPipelineExpand
    \/ CallListWithSeparator
    \/ CallIsOk
    \/ CallExpandPrompt
    \/ CallStringExpand

SpecCalls == InitCalls /\ [][NextCalls]_vars

----------------------------------------------------------------------------
(* Repl::run: the loop that reads a command, over continuation lines while *)
(* it is incomplete, and hands it to one of the debug modes or to the      *)
(* engine.  A read of a line is one step; what the user types and what the *)
(* terminal, the history file and the engine answer are chosen in it.      *)

\* the lines a user types
Lines == { <<>>, <<"a">>, <<"(">>, <<")">>, <<"e", "x", "i", "t">> }

\* "exit"
ExitLine == <<"e", "x", "i", "t">>

\* the parser on the characters of Lines: a `)` without a `(` before it is a
\* syntax error, a `(` without a `)` by the end of the input is incomplete;
\* the detail of a syntax error is the input from the offending character on
RECURSIVE ParseScan(_, _)
ParseScan(input, depth) ==
    IF input = <<>>
    THEN IF depth > 0 THEN Err(Error("Incomplete", <<>>)) ELSE Ok("SyntaxTree")
    ELSE IF Head(input) = "(" THEN ParseScan(Tail(input), depth + 1)
    ELSE IF Head(input) = ")"
    THEN IF depth = 0 THEN Err(Error("SyntaxError", input))
         ELSE ParseScan(Tail(input), depth - 1)
    ELSE ParseScan(Tail(input), depth)

\* psh_core::parse(input, drop_trailing_unparsed)
parse(input, drop_trailing_unparsed) == ParseScan(input, 0)

\* the errors of the terminal and of the writer, and of a file
TerminalErrors == { NotATty }
FileErrors == { NotFound, PermissionDenied }

\* what Engine::execute_line can return for a line
ExecuteResults(l) ==
    IF parse(l, FALSE).tag = "Err" THEN { parse(l, FALSE) }
    ELSE { Ok(<<>>), Ok(<<0>>), Ok(<<1, 0>>), Err(Error("UnknownCommand", l)),
           Err(Error("Unimplemented", l)) }

\* what Engine::execute_file(path::init_file()) can return
InitFileResults ==
    { Ok(<<>>), Err(Error("SyntaxError", <<")">>)), Err(Error("UnknownCommand", <<"a">>)) }
        \cup { Err(Io(e)) : e \in FileErrors }

\* Repl::read_init_file, r being what execute_file returned
read_init_file(r) ==
    IF r.tag = "Ok" THEN Ok(<<>>)
    ELSE IF r.e.variant = "Io" /\ r.e.kind = "NotFound" THEN Ok(<<>>)
    ELSE r

\* `psh: `
PshPrefix == <<"p", "s", "h", ":", " ">>

\* writeln!(self.engine.writer, "psh: {e}"): what is written
writeln_psh(e) == PshPrefix \o Display(e) \o <<NL>>

\* a match that assigns whatever list execute_line returned
match_statuses_any(current, r) ==
    IF r.tag = "Ok" THEN Some(r.v) ELSE current

\* match self.engine.execute_line(line): what self.last_status is afterwards
match_statuses(current, r) ==
    IF r.tag = "Ok" /\ r.v # <<>> THEN Some(r.v) ELSE current

\* line += &l without the line.push('\n') before it
push_line_unseparated(text, l) == text \o l

\* line.push('\n'); ...; line += &l
push_line(text, l) == text \o <<NL>> \o l

\* Repl::new() and the call run(tokenize, lex, ast)
InitRepl ==
    /\ ExpandIdle
    /\ env = NoEnv
    /\ QuotesIdle
    /\ CallsIdle
    /\ repl_pc = "init"
    /\ line = <<>>
    /\ typed = <<>>
    /\ modes \in [tokenize : BOOLEAN, lex : BOOLEAN, ast : BOOLEAN]
    /\ written = None
    /\ run_result = None
    /\ last_status = None
    /\ history = <<>>
    /\ ReadLineIdle
    /\ FullCommandIdle

\* self.read_init_file()?; the defaults of PS1 and PS2;
\* ctrlc::set_handler(|| {}).expect("psh: Error setting ^C handler")
ReplInit ==
    /\ repl_pc = "init"
    /\ \E r \in InitFileResults :
          IF read_init_file(r).tag = "Err"
          THEN /\ run_result' = Some(read_init_file(r))
               /\ repl_pc' = "returned"
          ELSE /\ \/ repl_pc' = "loop"
                  \/ \* set_handler returned an error
                     repl_pc' = "panicked"
               /\ UNCHANGED run_result
    /\ UNCHANGED <<line, typed, modes, written, last_status, history>>
    /\ UNCHANGED notReplVars

\* self.prompt(false)?; cursor::position()?; read_line(.., true, ..)?
\* The RawMode of prompt and the RawMode of read_line are dropped in it:
\* disable_raw_mode().expect("could not disable raw mode") panics on an error
ReplReadLine ==
    /\ repl_pc = "loop"
    /\ Len(history) < MaxHistory
    /\ \/ /\ \E l \in Lines : line' = l /\ typed' = <<l>>
          /\ written' = None
          /\ repl_pc' = "while"
          /\ UNCHANGED run_result
       \/ /\ \E e \in TerminalErrors : run_result' = Some(Err(Io(e)))
          /\ repl_pc' = "returned"
          /\ UNCHANGED <<line, typed, written>>
       \/ \* a RawMode could not be dropped
          /\ repl_pc' = "panicked"
          /\ UNCHANGED <<line, typed, written, run_result>>
    /\ UNCHANGED <<modes, last_status, history>>
    /\ UNCHANGED notReplVars

\* the body of `while let Err(Error::Incomplete(_)) = parse(&line, false)`
ReplContinue ==
    /\ repl_pc = "while"
    /\ IsIncomplete(parse(line, FALSE))
    /\ \/ /\ Len(typed) < MaxLines
          /\ \E l \in Lines : line' = push_line(line, l) /\ typed' = Append(typed, l)
          /\ UNCHANGED <<repl_pc, run_result>>
       \/ \* Err(Error::CancelledLine)
          /\ line' = <<>>
          /\ repl_pc' = "dispatch"
          /\ UNCHANGED <<typed, run_result>>
       \/ \* self.prompt(true)? or Err(e) => return Err(e)
          /\ line' = line \o <<NL>>
          /\ \E e \in TerminalErrors : run_result' = Some(Err(Io(e)))
          /\ repl_pc' = "returned"
          /\ UNCHANGED typed
       \/ \* the RawMode of prompt or of read_line could not be dropped
          /\ line' = line \o <<NL>>
          /\ repl_pc' = "panicked"
          /\ UNCHANGED <<typed, run_result>>
    /\ UNCHANGED <<modes, written, last_status, history>>
    /\ UNCHANGED notReplVars

\* the while loop ends: parse returned something other than Incomplete
ReplLeaveWhile ==
    /\ repl_pc = "while"
    /\ ~IsIncomplete(parse(line, FALSE))
    /\ repl_pc' = "dispatch"
    /\ UNCHANGED <<line, typed, modes, written, run_result, last_status, history>>
    /\ UNCHANGED notReplVars

\* if tokenize && line != "exit": println! of every token; println! panics
\* when the write to stdout fails
ReplTokenize ==
    /\ repl_pc = "dispatch"
    /\ modes.tokenize /\ line # ExitLine
    /\ \/ written' = Some(<<"tokens">>) /\ repl_pc' = "loop"
       \/ repl_pc' = "panicked" /\ UNCHANGED written
    /\ UNCHANGED <<line, typed, modes, run_result, last_status, history>>
    /\ UNCHANGED notReplVars

\* else if lex && line != "exit"
ReplLex ==
    /\ repl_pc = "dispatch"
    /\ ~(modes.tokenize /\ line # ExitLine)
    /\ modes.lex /\ line # ExitLine
    /\ \/ written' = Some(<<"semantic tokens">>) /\ repl_pc' = "loop"
       \/ repl_pc' = "panicked" /\ UNCHANGED written
    /\ UNCHANGED <<line, typed, modes, run_result, last_status, history>>
    /\ UNCHANGED notReplVars

\* else if ast && line != "exit": let ast = parse(line, true)?; println!
ReplAst ==
    /\ repl_pc = "dispatch"
    /\ ~(modes.tokenize /\ line # ExitLine)
    /\ ~(modes.lex /\ line # ExitLine)
    /\ modes.ast /\ line # ExitLine
    /\ IF parse(line, TRUE).tag = "Err"
       THEN /\ run_result' = Some(parse(line, TRUE))
            /\ repl_pc' = "returned"
            /\ UNCHANGED written
       ELSE /\ \/ written' = Some(<<"ast">>) /\ repl_pc' = "loop"
               \/ repl_pc' = "panicked" /\ UNCHANGED written
            /\ UNCHANGED run_result
    /\ UNCHANGED <<line, typed, modes, last_status, history>>
    /\ UNCHANGED notReplVars

\* else: self.engine.history.append(&line)?; match self.engine.execute_line(line)
ReplExecute ==
    /\ repl_pc = "dispatch"
    /\ ~(modes.tokenize /\ line # ExitLine)
    /\ ~(modes.lex /\ line # ExitLine)
    /\ ~(modes.ast /\ line # ExitLine)
    /\ \/ \* history.append(&line)? fails
          /\ \E e \in FileErrors : run_result' = Some(Err(Io(e)))
          /\ repl_pc' = "returned"
          /\ UNCHANGED <<written, last_status, history>>
       \/ \* the exit builtin ends the process
          /\ line = ExitLine
          /\ history' = Append(history, line)
          /\ repl_pc' = "exited"
          /\ UNCHANGED <<written, run_result, last_status>>
       \/ /\ line # ExitLine
          /\ history' = Append(history, line)
          /\ \E r \in ExecuteResults(line) :
                /\ last_status' = match_statuses(last_status, r)
                /\ \/ /\ written' = IF r.tag = "Err" THEN Some(writeln_psh(r.e))
                                    ELSE None
                      /\ repl_pc' = "loop"
                      /\ UNCHANGED run_result
                   \/ \* writeln!(..)? fails
                      /\ r.tag = "Err"
                      /\ \E e \in TerminalErrors :
                            run_result' = Some(Err(Io(e)))
                      /\ repl_pc' = "returned"
                      /\ UNCHANGED written
    /\ UNCHANGED <<line, typed, modes>>
    /\ UNCHANGED notReplVars

NextRepl ==
    \/ ReplInit
    \/ ReplReadLine
    \/ ReplContinue
    \/ ReplLeaveWhile
    \/ ReplTokenize
    \/ ReplLex
    \/ ReplAst
    \/ ReplExecute

SpecRepl == InitRepl /\ [][NextRepl]_vars

----------------------------------------------------------------------------
(* read_line: the line editor.  One step is one event read from the        *)
(* terminal and the arm of the match that handles it.  A line is the       *)
(* sequence of the bytes of its UTF-8 encoding: an ASCII character is one  *)
(* byte, named by the character, and the one other character, U+00E9, is   *)
(* the two bytes C3 A9.  state.index and String::len count bytes.          *)
(* state.index, a usize, is held as its decimal numeral, the text of its   *)
(* digits, because the integers of the model are 32 bits wide and a usize  *)
(* is 64: an index inside a line is a numeral of a few digits, an index    *)
(* that wrapped below 0 is a numeral of twenty.                            *)

\* 2^64, the number of the values of a usize
UsizeModulus ==
    <<"1", "8", "4", "4", "6", "7", "4", "4", "0", "7", "3",
      "7", "0", "9", "5", "5", "1", "6", "1", "6">>

\* the numeral of an integer of the model
usize(n) == to_string(n)

\* the numeral is one of an integer of the model
Fits(u) == Len(u) <= 9

\* the integer a numeral of at most nine digits stands for
RECURSIVE int(_)
int(u) ==
    IF u = <<>> THEN 0
    ELSE 10 * int(SubSeq(u, 1, Len(u) - 1))
         + (CHOOSE d \in 0..9 : DigitChars[d + 1] = u[Len(u)])

\* a longer numeral: the digits before the last nine, and the last nine as
\* an integer
High(u) == SubSeq(u, 1, Len(u) - 9)
Low(u) == int(SubSeq(u, Len(u) - 8, Len(u)))

\* usize::wrapping_add_signed: n + diff modulo 2^64, for an n that is less
\* than 10^8 or not more than 10^8 below 2^64 and a diff between -10^8 and 10^8
wrapping_add_signed(n, diff) ==
    IF Fits(n)
    THEN IF int(n) + diff >= 0 THEN usize(int(n) + diff)
         ELSE High(UsizeModulus) \o usize(Low(UsizeModulus) + int(n) + diff)
    ELSE IF Low(n) + diff >= Low(UsizeModulus)
         THEN usize(Low(n) + diff - Low(UsizeModulus))
         ELSE High(n) \o usize(Low(n) + diff)

\* the character U+00E9 and the two bytes of its encoding
EAcute == "U+00E9"
Utf8Lead == "C3"
Utf8Cont == "A9"

\* char::encode_utf8
encode_utf8(c) == IF c = EAcute THEN <<Utf8Lead, Utf8Cont>> ELSE <<c>>

\* str::is_char_boundary
is_char_boundary(str, idx) ==
    \/ idx = 0
    \/ idx = Len(str)
    \/ 0 < idx /\ idx < Len(str) /\ str[idx + 1] # Utf8Cont

\* str.chars(), every character named by its first byte
Chars(str) == SelectSeq(str, LAMBDA b : b # Utf8Cont)

\* String::insert_str(idx, string); it panics when idx is not a char boundary
InsertStr(str, idx, string) ==
    SubSeq(str, 1, idx) \o string \o SubSeq(str, idx + 1, Len(str))

\* String::replace_range(from..to, ""); it panics when from or to is not a
\* char boundary
RemoveRange(str, from, to) == SubSeq(str, 1, from) \o SubSeq(str, to + 1, Len(str))

\* String::remove(idx) of a string that has a character starting at idx
RemoveChar(str, idx) ==
    RemoveRange(str, idx, idx + (IF str[idx + 1] = Utf8Lead THEN 2 ELSE 1))

\* str.chars().nth(i)
CharAt(str, i) ==
    IF 0 <= i /\ i < Len(Chars(str)) THEN Some(Chars(str)[i + 1]) ELSE None

\* &str[start..] is in bounds
SliceFromInBounds(str, start) == is_char_boundary(str, start)

\* &str[start..end] is in bounds
SliceInBounds(str, start, end) ==
    /\ start <= end
    /\ end <= Len(str)
    /\ is_char_boundary(str, start)
    /\ is_char_boundary(str, end)

\* state.index is not a position the line can be cut at
OffBoundary(st) ==
    ~Fits(st.index) \/ ~is_char_boundary(st.line, int(st.index))

\* line.split(' ').next()
FirstPart(str) ==
    LET spaces == { i \in 1..Len(str) : str[i] = " " }
    IN IF spaces = {} THEN str
       ELSE SubSeq(str, 1, (CHOOSE i \in spaces : \A j \in spaces : i <= j) - 1)

\* expand_abbreviation(abbreviations, line)
expand_abbreviation(abbrs, str) ==
    LET part == FirstPart(str)
    IN IF part \in DOMAIN abbrs
       THEN LET exp == abbrs[part]
                diff == Len(exp) - Len(part)
            IN Some(<<Replacen(str, part, exp, 1), diff>>)
       ELSE None

\* State { line: Default::default(), index: 0, .. }
NewState ==
    [line |-> <<>>, index |-> usize(0), about_to_exit |-> FALSE, cancelled |-> FALSE,
     cleared |-> FALSE, expand_abbreviations |-> TRUE]

\* if state.expand_abbreviations { if let Some((expanded_line, diff)) = .. }
Expanded(st, abbrs) ==
    LET e == IF st.expand_abbreviations
             THEN expand_abbreviation(abbrs, st.line) ELSE None
    IN IF e = None THEN st
       ELSE [st EXCEPT !.line = e[1][1],
                          !.index = wrapping_add_signed(st.index, e[1][2])]

\* if let Event::Paste(s) = &event
on_paste(st, pasted) ==
    IF OffBoundary(st) THEN [state |-> st, ok |-> FALSE]
    ELSE LET index == int(st.index) + Len(pasted)
             after == [st EXCEPT !.line = InsertStr(st.line, int(st.index), pasted),
                                    !.index = usize(index)]
         IN [state |-> after, ok |-> SliceFromInBounds(after.line, index - 1)]

\* (KeyCode::Char('c'), KeyModifiers::CONTROL)
on_ctrl_c(st, is_ps1) ==
    IF is_ps1 /\ st.line = <<>> THEN [state |-> st, ok |-> TRUE]
    ELSE [state |-> [st EXCEPT !.about_to_exit = TRUE, !.cancelled = TRUE],
          ok |-> TRUE]

\* (KeyCode::Enter, _)
on_enter(st, abbrs) ==
    [state |-> [Expanded(st, abbrs) EXCEPT !.about_to_exit = TRUE], ok |-> TRUE]

\* (KeyCode::Char('d'), KeyModifiers::CONTROL)
on_ctrl_d(st, is_ps1) ==
    IF is_ps1 /\ st.line = <<>>
    THEN [state |-> [st EXCEPT !.about_to_exit = TRUE,
                                  !.line = <<"e", "x", "i", "t">>], ok |-> TRUE]
    ELSE [state |-> st, ok |-> TRUE]

\* (KeyCode::Up, _) | (KeyCode::Char('p'), KeyModifiers::CONTROL); entry is
\* what history.prev_entry() has, None when it fails
on_up(st, entry) ==
    LET l == IF entry # None THEN entry[1] ELSE st.line
    IN [state |-> [st EXCEPT !.line = l, !.index = usize(Len(l))], ok |-> TRUE]

\* (KeyCode::Down, _) | (KeyCode::Char('n'), KeyModifiers::CONTROL)
on_down(st, entry) ==
    LET l == IF entry # None THEN entry[1] ELSE <<>>
    IN [state |-> [st EXCEPT !.line = l, !.index = usize(Len(l))], ok |-> TRUE]

\* (KeyCode::Char('u'), KeyModifiers::CONTROL)
on_ctrl_u(st) ==
    [state |-> [st EXCEPT !.line = <<>>, !.index = usize(0)], ok |-> TRUE]

\* (KeyCode::Char('w'), KeyModifiers::CONTROL)
on_ctrl_w(st) ==
    IF st.index = usize(0) THEN [state |-> st, ok |-> TRUE]
    ELSE IF ~Fits(st.index) THEN [state |-> st, ok |-> FALSE]
    ELSE LET index == int(st.index)
             spaces == { i \in 0..(index - 1) : CharAt(st.line, i) = Some(" ") }
             found == IF spaces = {} THEN None
                      ELSE Some(CHOOSE i \in spaces : \A j \in spaces : j <= i)
             space_index == IF CharAt(st.line, index - 1) = Some(" ") THEN 0
                            ELSE IF found = None THEN 0 ELSE found[1]
         IN IF \/ ~is_char_boundary(st.line, space_index)
               \/ ~is_char_boundary(st.line, index)
            THEN [state |-> st, ok |-> FALSE]
            ELSE [state |-> [st EXCEPT
                                !.line = RemoveRange(st.line, space_index, index),
                                !.index = usize(space_index)],
                  ok |-> TRUE]

\* (KeyCode::Char('l'), KeyModifiers::CONTROL)
on_ctrl_l(st) == [state |-> [st EXCEPT !.cleared = TRUE], ok |-> TRUE]

\* (KeyCode::Left, _) | (KeyCode::Char('b'), KeyModifiers::CONTROL) if state.index > 0
on_left(st) ==
    IF st.index # usize(0)
    THEN [state |-> [st EXCEPT !.index = wrapping_add_signed(st.index, -1)],
          ok |-> TRUE]
    ELSE [state |-> st, ok |-> TRUE]

\* (KeyCode::Right, _) | (KeyCode::Char('f'), KeyModifiers::CONTROL)
\* if state.index < st.line.len()
on_right(st) ==
    IF Fits(st.index) /\ int(st.index) < Len(st.line)
    THEN [state |-> [st EXCEPT !.index = usize(int(st.index) + 1)], ok |-> TRUE]
    ELSE [state |-> st, ok |-> TRUE]

\* (KeyCode::Char(' '), KeyModifiers::NONE | KeyModifiers::SHIFT)
on_space(st, abbrs) ==
    IF OffBoundary(st) THEN [state |-> st, ok |-> FALSE]
    ELSE LET inserted == [st EXCEPT
                             !.line = InsertStr(st.line, int(st.index), <<" ">>),
                             !.index = usize(int(st.index) + 1)]
             after == Expanded(inserted, abbrs)
         IN [state |-> after,
             ok |-> /\ Fits(after.index)
                    /\ SliceFromInBounds(after.line, int(after.index) - 1)]

\* ctrl-space that leaves expand_abbreviations as it is
on_ctrl_space_keeping_flag(st) ==
    IF OffBoundary(st) THEN [state |-> st, ok |-> FALSE]
    ELSE [state |-> [st EXCEPT
                        !.line = InsertStr(st.line, int(st.index), <<" ">>),
                        !.index = usize(int(st.index) + 1)],
          ok |-> TRUE]

\* (KeyCode::Char(' '), KeyModifiers::CONTROL)
on_ctrl_space(st) ==
    IF OffBoundary(st) THEN [state |-> st, ok |-> FALSE]
    ELSE [state |-> [st EXCEPT
                        !.line = InsertStr(st.line, int(st.index), <<" ">>),
                        !.index = usize(int(st.index) + 1),
                        !.expand_abbreviations = FALSE],
          ok |-> TRUE]

\* (KeyCode::Char(c), KeyModifiers::NONE | KeyModifiers::SHIFT)
on_char(st, c) ==
    IF OffBoundary(st) THEN [state |-> st, ok |-> FALSE]
    ELSE LET after == [st EXCEPT
                          !.line = InsertStr(st.line, int(st.index), encode_utf8(c)),
                          !.index = usize(int(st.index) + 1),
                          !.expand_abbreviations = c \notin { "|", "&", ";" }]
         IN [state |-> after, ok |-> SliceFromInBounds(after.line, int(st.index))]

\* (KeyCode::Backspace, _) if state.index > 0
on_backspace(st) ==
    IF st.index # usize(0)
    THEN IF \/ ~Fits(st.index)
            \/ int(st.index) - 1 >= Len(st.line)
            \/ ~is_char_boundary(st.line, int(st.index) - 1)
         THEN [state |-> st, ok |-> FALSE]
         ELSE [state |-> [st EXCEPT
                             !.index = usize(int(st.index) - 1),
                             !.line = RemoveChar(st.line, int(st.index) - 1),
                             !.expand_abbreviations = TRUE],
               ok |-> TRUE]
    ELSE [state |-> st, ok |-> TRUE]

\* a match that gives the line back after a cancellation at the primary prompt
read_line_result_keeping_line(st, is_ps1) ==
    IF st.cancelled /\ ~is_ps1 THEN Err(Error("CancelledLine", <<>>))
    ELSE Ok(st.line)

\* match (state.cancelled, ps1)
read_line_result(st, is_ps1) ==
    IF st.cancelled /\ ~is_ps1 THEN Err(Error("CancelledLine", <<>>))
    ELSE IF st.cancelled THEN Ok(<<>>)
    ELSE Ok(st.line)

\* the characters a user types, the texts pasted, the entries of the history
\* and the abbreviations of the engine
TypedChars == { "g", "|", EAcute }

Pastes == { <<>>, <<"g", " ">>, <<Utf8Lead, Utf8Cont, " ">> }

HistoryEntries == { <<"g">>, <<"g", "g", " ">> }

AbbreviationSets ==
    { <<>>,
      [p \in { <<"g">>, <<"g", "g">> } |-> IF p = <<"g">> THEN <<"g", "i", "t">> ELSE <<>>] }

\* read_line(engine, ps1, start_pos, old_line) up to the loop
InitReadLine ==
    /\ ExpandIdle
    /\ env = NoEnv
    /\ QuotesIdle
    /\ CallsIdle
    /\ ReplIdle
    /\ FullCommandIdle
    /\ rl_pc = "loop"
    /\ rl_state = NewState
    /\ ps1 \in BOOLEAN
    /\ abbreviations \in AbbreviationSets
    /\ rl_result = None
    /\ last_key = "none"
    /\ last_flag_key = "none"

\* the end of an iteration that handled the key `key` with the outcome r
Handled(key, r) ==
    /\ rl_state' = r.state
    /\ last_key' = key
    /\ rl_pc' = IF ~r.ok THEN "panicked"
                ELSE IF r.state.about_to_exit \/ r.state.cleared THEN "break"
                ELSE "loop"
    /\ UNCHANGED <<ps1, abbreviations, rl_result>>
    /\ UNCHANGED notReadLineVars

Reading == rl_pc = "loop" /\ ~rl_state.about_to_exit

HasRoom(n) == Len(rl_state.line) + n <= MaxLineLen

KeyPaste ==
    /\ Reading
    /\ \E pasted \in Pastes : HasRoom(Len(pasted)) /\ Handled("Paste", on_paste(rl_state, pasted))
    /\ UNCHANGED last_flag_key

KeyCtrlC ==
    /\ Reading
    /\ Handled("^C", on_ctrl_c(rl_state, ps1))
    /\ UNCHANGED last_flag_key

KeyEnter ==
    /\ Reading
    /\ Handled("Enter", on_enter(rl_state, abbreviations))
    /\ UNCHANGED last_flag_key

KeyCtrlD ==
    /\ Reading
    /\ Handled("^D", on_ctrl_d(rl_state, ps1))
    /\ UNCHANGED last_flag_key

KeyUp ==
    /\ Reading
    /\ \E entry \in { None } \cup { Some(e) : e \in HistoryEntries } :
          Handled("Up", on_up(rl_state, entry))
    /\ UNCHANGED last_flag_key

KeyDown ==
    /\ Reading
    /\ \E entry \in { None } \cup { Some(e) : e \in HistoryEntries } :
          Handled("Down", on_down(rl_state, entry))
    /\ UNCHANGED last_flag_key

KeyCtrlU ==
    /\ Reading
    /\ Handled("^U", on_ctrl_u(rl_state))
    /\ UNCHANGED last_flag_key

KeyCtrlW ==
    /\ Reading
    /\ Handled("^W", on_ctrl_w(rl_state))
    /\ UNCHANGED last_flag_key

KeyCtrlL ==
    /\ Reading
    /\ Handled("^L", on_ctrl_l(rl_state))
    /\ UNCHANGED last_flag_key

KeyLeft ==
    /\ Reading
    /\ Handled("Left", on_left(rl_state))
    /\ UNCHANGED last_flag_key

KeyRight ==
    /\ Reading
    /\ Handled("Right", on_right(rl_state))
    /\ UNCHANGED last_flag_key

KeySpace ==
    /\ Reading
    /\ HasRoom(1)
    /\ Handled("Space", on_space(rl_state, abbreviations))
    /\ UNCHANGED last_flag_key

KeyCtrlSpace ==
    /\ Reading
    /\ HasRoom(1)
    /\ Handled("ctrl-Space", on_ctrl_space(rl_state))
    /\ last_flag_key' = IF rl_pc' = "panicked" THEN last_flag_key ELSE "ctrl-Space"

KeyChar ==
    /\ Reading
    /\ \E c \in TypedChars :
          HasRoom(Len(encode_utf8(c))) /\ Handled("Char", on_char(rl_state, c))
    /\ last_flag_key' = IF rl_pc' = "panicked" THEN last_flag_key ELSE "Char"

KeyBackspace ==
    /\ Reading
    /\ Handled("Backspace", on_backspace(rl_state))
    /\ last_flag_key' = IF rl_state.index # usize(0) /\ rl_pc' # "panicked" THEN "Backspace"
                        ELSE last_flag_key

\* a write to the terminal or event::read() fails, in the loop or after
\* it: `?` returns the error and _raw is dropped, and
\* disable_raw_mode().expect("could not disable raw mode") panics on an error
ReadLineIoError ==
    /\ rl_pc \in { "loop", "break" }
    /\ \/ /\ rl_result' \in { Some(Err(Io(e))) : e \in TerminalErrors }
          /\ rl_pc' = "returned"
       \/ /\ rl_pc' = "drop_panicked"
          /\ UNCHANGED rl_result
    /\ UNCHANGED <<rl_state, ps1, abbreviations, last_key, last_flag_key>>
    /\ UNCHANGED notReadLineVars

\* after the loop: match (state.cancelled, ps1), and the drop of _raw
ReadLineReturn ==
    /\ rl_pc = "break"
    /\ \/ /\ rl_result' = Some(read_line_result(rl_state, ps1))
          /\ rl_pc' = "returned"
       \/ /\ rl_pc' = "drop_panicked"
          /\ UNCHANGED rl_result
    /\ UNCHANGED <<rl_state, ps1, abbreviations, last_key, last_flag_key>>
    /\ UNCHANGED notReadLineVars

NextReadLine ==
    \/ KeyPaste
    \/ KeyCtrlC
    \/ KeyEnter
    \/ KeyCtrlD
    \/ KeyUp
    \/ KeyDown
    \/ KeyCtrlU
    \/ KeyCtrlW
    \/ KeyCtrlL
    \/ KeyLeft
    \/ KeyRight
    \/ KeySpace
    \/ KeyCtrlSpace
    \/ KeyChar
    \/ KeyBackspace
    \/ ReadLineIoError
    \/ ReadLineReturn

SpecReadLine == InitReadLine /\ [][NextReadLine]_vars

----------------------------------------------------------------------------
(* read_full_command: the first line, then continuation lines while the    *)
(* text is incomplete.  The function holds a RawMode value from its first  *)
(* statement to its return, and every read_line it calls holds one of its  *)
(* own from its first statement to its return.  RawMode::init is           *)
(* terminal::enable_raw_mode, the drop of a RawMode is                     *)
(* terminal::disable_raw_mode: the terminal has one mode, the calls are    *)
(* not counted.                                                            *)

\* what read_line(engine, ps1, ..) returns once its RawMode is initialized
ReadLineResults(is_ps1) ==
    { Ok(l) : l \in Lines } \cup { Err(Io(e)) : e \in TerminalErrors }
        \cup (IF is_ps1 THEN {} ELSE { Err(Error("CancelledLine", <<>>)) })

\* the arms of the match on the continuation read that keep the line
on_continuation_keeping(text, r) ==
    IF r.tag = "Ok" THEN [line |-> text \o r.v, pc |-> "while", err |-> None]
    ELSE IF r.e.variant = "CancelledLine"
    THEN [line |-> text, pc |-> "return_ok", err |-> None]
    ELSE [line |-> text, pc |-> "return_err", err |-> Some(r.e)]

\* match read_line(engine, false, start_pos, Some(&line)) { .. }
on_continuation(text, r) ==
    IF r.tag = "Ok" THEN [line |-> text \o r.v, pc |-> "while", err |-> None]
    ELSE IF r.e.variant = "CancelledLine"
    THEN [line |-> <<>>, pc |-> "return_ok", err |-> None]
    ELSE [line |-> text, pc |-> "return_err", err |-> Some(r.e)]

\* the errors of parse_word(true) on the quoted text of a prompt
PromptSyntaxErrors == { Error("SyntaxError", <<DQ>>) }

\* prompt(engine, ps2) from expand_prompt on: r is what expand_prompt did with
\* the word of the prompt, the result is what prompt returns, printing
\* included, or that it panicked.  &word[1..word.len() - 1] panics on a text
\* it cannot cut: on the empty text word.len() - 1 overflows, or wraps to an
\* end that is out of range
prompt_results(r) ==
    IF ~r.ok THEN { [tag |-> "Panic"] }
    ELSE IF r.value.tag = "Err" THEN { r.value }
    ELSE IF \/ Len(r.value.v) = 0
            \/ ~SliceInBounds(r.value.v, 1, Len(r.value.v) - 1)
    THEN { [tag |-> "Panic"] }
    ELSE { Ok(<<>>) } \cup { Err(Io(e)) : e \in TerminalErrors }

\* prompt(engine, ps2): what it can return, over the texts of PS1 or PS2 and
\* the values of PWD
PromptResults ==
    { Err(e) : e \in PromptSyntaxErrors }
        \cup UNION { prompt_results(expand_prompt(w, pwd)) :
                        w \in PromptWords, pwd \in WorkingDirectories }

\* a panic inside prompt: as it unwinds the RawMode of read_full_command is
\* dropped, and that drop disables raw mode unless disable_raw_mode() fails
PromptPanics ==
    /\ fc_pc' = "panicked"
    /\ guards' = 0
    /\ raw_mode' \in { raw_mode, FALSE }
    /\ UNCHANGED <<fc_typed, fc_read, fc_err, fc_result>>

\* the call read_full_command(engine)
InitFullCommand ==
    /\ ExpandIdle
    /\ env = NoEnv
    /\ QuotesIdle
    /\ CallsIdle
    /\ ReplIdle
    /\ ReadLineIdle
    /\ fc_pc = "init"
    /\ fc_line = <<>>
    /\ fc_typed = <<>>
    /\ fc_read = None
    /\ fc_err = None
    /\ fc_result = None
    /\ raw_mode = FALSE
    /\ guards = 0

\* let _raw = RawMode::init()?;
FullCommandRawMode ==
    /\ fc_pc = "init"
    /\ \/ /\ raw_mode' = TRUE
          /\ guards' = guards + 1
          /\ fc_pc' = "prompt"
          /\ UNCHANGED fc_result
       \/ \* enable_raw_mode()? fails: no RawMode is made
          /\ fc_result' \in { Some(Err(Io(e))) : e \in TerminalErrors }
          /\ fc_pc' = "returned"
          /\ UNCHANGED <<raw_mode, guards>>
    /\ UNCHANGED <<fc_line, fc_typed, fc_read, fc_err>>
    /\ UNCHANGED notFullCommandVars

\* prompt(engine, false)?; let start_pos = cursor::position()?;
FullCommandPrompt ==
    /\ fc_pc = "prompt"
    /\ \E r \in PromptResults :
          IF r.tag = "Panic" THEN PromptPanics
          ELSE /\ IF r.tag = "Ok"
                  THEN \/ fc_pc' = "read_line" /\ UNCHANGED fc_err
                       \/ \* cursor::position()? fails
                          /\ fc_pc' = "return_err"
                          /\ fc_err' \in { Some(Io(e)) : e \in TerminalErrors }
                  ELSE fc_pc' = "return_err" /\ fc_err' = Some(r.e)
               /\ UNCHANGED <<fc_typed, fc_read, fc_result, raw_mode, guards>>
    /\ UNCHANGED fc_line
    /\ UNCHANGED notFullCommandVars

\* read_line: let _raw = RawMode::init()?; of the first and of a
\* continuation read
ReadLineRawMode ==
    /\ fc_pc \in { "read_line", "read_continuation" }
    /\ \/ /\ raw_mode' = TRUE
          /\ guards' = guards + 1
          /\ fc_pc' = IF fc_pc = "read_line" THEN "in_read_line"
                      ELSE "in_read_continuation"
          /\ UNCHANGED <<fc_err, fc_read>>
       \/ \* enable_raw_mode()? fails: read_line returns the error
          /\ \E e \in TerminalErrors :
                /\ fc_read' = Some(Err(Io(e)))
                /\ fc_err' = Some(Io(e))
          /\ fc_pc' = "return_err"
          /\ UNCHANGED <<raw_mode, guards>>
    /\ UNCHANGED <<fc_line, fc_typed, fc_result>>
    /\ UNCHANGED notFullCommandVars

\* <RawMode as Drop>::drop when disable_raw_mode() returns an error:
\* expect("could not disable raw mode") panics; the terminal stays as it is
\* unless the drop of another RawMode, as the panic unwinds, disables raw mode
DropPanics ==
    /\ fc_pc' = "drop_panicked"
    /\ guards' = 0
    /\ raw_mode' \in (IF guards > 1 THEN { raw_mode, FALSE } ELSE { raw_mode })
    /\ UNCHANGED <<fc_line, fc_typed, fc_read, fc_err, fc_result>>

\* let mut line = read_line(engine, true, start_pos, None)?; the RawMode of
\* read_line is dropped as it returns
FullCommandReadLine ==
    /\ fc_pc = "in_read_line"
    /\ \/ /\ \E r \in ReadLineResults(TRUE) :
                /\ fc_read' = Some(r)
                /\ IF r.tag = "Ok"
                   THEN /\ fc_line' = r.v
                        /\ fc_typed' = <<r.v>>
                        /\ fc_pc' = "while"
                        /\ UNCHANGED fc_err
                   ELSE /\ fc_err' = Some(r.e)
                        /\ fc_pc' = "return_err"
                        /\ UNCHANGED <<fc_line, fc_typed>>
          /\ guards' = guards - 1
          /\ raw_mode' = FALSE
          /\ UNCHANGED fc_result
       \/ DropPanics
    /\ UNCHANGED notFullCommandVars

\* 'outer: while let Err(Error::Incomplete(_)) = parse(&line, false) {
\*     line.push('\n'); prompt(engine, true)?;
FullCommandWhile ==
    /\ fc_pc = "while"
    /\ IF IsIncomplete(parse(fc_line, FALSE))
       THEN /\ fc_line' = fc_line \o <<NL>>
            /\ \E r \in PromptResults :
                  IF r.tag = "Panic" THEN PromptPanics
                  ELSE /\ IF r.tag = "Ok"
                          THEN fc_pc' = "read_continuation" /\ UNCHANGED fc_err
                          ELSE fc_pc' = "return_err" /\ fc_err' = Some(r.e)
                       /\ UNCHANGED <<fc_typed, fc_read, fc_result, raw_mode, guards>>
       ELSE /\ fc_pc' = "return_ok"
            /\ UNCHANGED <<fc_line, fc_err, fc_typed, fc_read, fc_result, raw_mode,
                           guards>>
    /\ UNCHANGED notFullCommandVars

\* match read_line(engine, false, start_pos, Some(&line)) { .. }; the RawMode
\* of read_line is dropped as it returns
FullCommandContinuation ==
    /\ fc_pc = "in_read_continuation"
    /\ \/ /\ \E r \in ReadLineResults(FALSE) :
                /\ r.tag = "Ok" => Len(fc_typed) < MaxLines
                /\ fc_read' = Some(r)
                /\ fc_line' = on_continuation(fc_line, r).line
                /\ fc_pc' = on_continuation(fc_line, r).pc
                /\ fc_err' = on_continuation(fc_line, r).err
                /\ fc_typed' = IF r.tag = "Ok" THEN Append(fc_typed, r.v)
                                ELSE fc_typed
          /\ guards' = guards - 1
          /\ raw_mode' = FALSE
          /\ UNCHANGED fc_result
       \/ DropPanics
    /\ UNCHANGED notFullCommandVars

\* Ok(line), or the return of an error; _raw is dropped
FullCommandReturn ==
    /\ fc_pc \in { "return_ok", "return_err" }
    /\ \/ /\ fc_result' = Some(IF fc_pc = "return_ok" THEN Ok(fc_line)
                                ELSE Err(fc_err[1]))
          /\ guards' = guards - 1
          /\ raw_mode' = FALSE
          /\ fc_pc' = "returned"
          /\ UNCHANGED <<fc_line, fc_typed, fc_read, fc_err>>
       \/ DropPanics
    /\ UNCHANGED notFullCommandVars

NextFullCommand ==
    \/ FullCommandRawMode
    \/ FullCommandPrompt
    \/ ReadLineRawMode
    \/ FullCommandReadLine
    \/ FullCommandWhile
    \/ FullCommandContinuation
    \/ FullCommandReturn

SpecFullCommand == InitFullCommand /\ [][NextFullCommand]_vars

----------------------------------------------------------------------------
(* What the expansion of a word is required to yield: the text of the word *)
(* read left to right, every annotated range of one of the given kinds     *)
(* replaced by the value of its annotation.                                *)

Slice(str, range) == SubSeq(str, range.start + 1, range.end + 1)

\* the value an annotation of word w stands for
ValueOf(w, e) ==
    IF e.kind = "Parameter" THEN ParameterValue(e.name)
    ELSE IF e.kind = "Tilde" /\ e.name = <<>> THEN env.HOME
    ELSE IF e.kind = "Tilde" /\ is_portable_filename(e.name) /\ system_has_user(e.name)
    THEN env.users[e.name]
    ELSE Slice(w.name, e.range)

RECURSIVE Substituted(_, _, _)
Substituted(w, kinds, i) ==
    IF i >= Len(w.name) THEN <<>>
    ELSE LET hits == { k \in 1..Len(w.expansions) :
                          /\ w.expansions[k].kind \in kinds
                          /\ w.expansions[k].range.start = i }
         IN IF hits = {}
            THEN <<w.name[i + 1]>> \o Substituted(w, kinds, i + 1)
            ELSE LET e == w.expansions[CHOOSE k \in hits : TRUE]
                 IN ValueOf(w, e) \o Substituted(w, kinds, e.range.end + 1)

KindsOf(w) == { w.expansions[k].kind : k \in 1..Len(w.expansions) }

\* the annotations of w that are not of the given kinds, in order
Others(w, kinds) == SelectSeq(w.expansions, LAMBDA e : e.kind \notin kinds)

QuoteFree(str) == \A i \in 1..Len(str) : str[i] \notin {BS, SQ, DQ}

\* a leading Tilde annotation with an empty name, then Parameter annotations only
TildeThenParameters(w) ==
    /\ Len(w.expansions) >= 2
    /\ w.expansions[1] = [kind |-> "Tilde", range |-> [start |-> 0, end |-> 0], name |-> <<>>]
    /\ \A k \in 2..Len(w.expansions) : w.expansions[k].kind = "Parameter"

\* the word ~/$X
TildeSlashX ==
    [whitespace |-> <<" ">>,
     name |-> <<"~", "/", "$", "X">>,
     expansions |-> << [kind |-> "Tilde", range |-> [start |-> 0, end |-> 0], name |-> <<>>],
                       [kind |-> "Parameter", range |-> [start |-> 2, end |-> 3],
                        name |-> <<"X">>] >>]

----------------------------------------------------------------------------
(* Claims about Word::expand. *)

\* C1: Word::expand of a word with a leading Tilde annotation followed by
\* Parameter annotations yields HOME followed by the remaining text with
\* every parameter range replaced by its value, whatever the length of HOME
\* (~/$X with HOME=/h and X='a b' yields '/h/a b').
C1_TildeThenParameters ==
    (pc = "done" /\ TildeThenParameters(orig) /\ QuoteFree(orig.name))
        => word.name = Substituted(orig, {"Tilde", "Parameter"}, 0)

\* C2: for a word that carries Parameter annotations only, expand_parameters
\* returns the text in which every annotated range is replaced by the value
\* of its parameter and every other character is kept in order, for values
\* shorter, equal or longer than the range; no Parameter annotation is left.
C2_ParametersReplaced ==
    /\ (KindsOf(orig) = {"Parameter"}) => pc # "panicked"
    /\ (pc = "quote_removal" /\ KindsOf(orig) = {"Parameter"})
          => /\ word.name = Substituted(orig, {"Parameter"}, 0)
             /\ word.expansions = <<>>
    /\ (pc = "quote_removal") => "Parameter" \notin KindsOf(word)

\* witness of C2: $X/$? with X longer and the status shorter than its range
C2_Witness ==
    /\ pc = "quote_removal"
    /\ orig.name = <<"$", "X", "/", "$", "?">>
    /\ Len(orig.expansions) = 2
    /\ env.vars[<<"X">>] = Some(<<"a", " ", "b">>)
    /\ env.last_status = <<0>>
    /\ word.name = <<"a", " ", "b", "/", "0">>

IsDescending(ranges) ==
    \A i \in 1..Len(ranges) : \A j \in 1..Len(ranges) :
        i < j => ranges[i].start > ranges[j].start

\* C7: during the expansion of one word the range replacements applied to
\* word.name happen in strictly descending order of range start, tilde and
\* parameter annotations alike.
C7_DescendingReplacements == IsDescending(applied)

\* C8: Word::expand never fails on pure textual expansion: for every word
\* with valid ranges and every environment the expansion returns a word.
C8_NeverFails == pc # "panicked"

\* C9: after Word::expand, word.expansions holds only deferred annotations
\* (Command, Arithmetic) or none at all.
C9_OnlyDeferredLeft ==
    (pc = "done") => KindsOf(word) \subseteq {"Command", "Arithmetic"}

\* C10: tilde expansion replaces every Tilde annotation with an empty name
\* by HOME, every one naming an existing user by that user's home directory,
\* leaves the text of any other alone, and removes every Tilde annotation.
C10_TildeExpansion ==
    (pc = "expand_parameters")
        => /\ word.name = Substituted(orig, {"Tilde"}, 0)
           /\ "Tilde" \notin KindsOf(word)

----------------------------------------------------------------------------
(* Claims about remove_quotes, stated on the iterations of its loop.       *)

\* an iteration of the loop is about to run on character Head(chars)
Scanning == rq_pc = "loop" /\ chars # <<>>

\* the character after Head(chars), if any
Following == Peek(Tail(chars))

Emits(c) == name' = Append(name, c) /\ chars' = Tail(chars) /\ ~is_escaped'

HelloThere == <<"h", "e", "l", "l", "o", BS, " ", "t", "h", "e", "r", "e">>

C3_Step ==
    /\ (Scanning /\ state = "None" /\ ~is_escaped /\ Head(chars) = BS
          /\ Following # None /\ Following # Some(NL))
         => /\ name' = name
            /\ chars' = Tail(chars)
            /\ state' = "None"
            /\ is_escaped'
    /\ (Scanning /\ state = "None" /\ is_escaped)
         => Emits(Head(chars)) /\ state' = "None"
    /\ (state' = "None" /\ is_escaped' /\ ~is_escaped)
         => Scanning /\ state = "None" /\ Head(chars) = BS

\* C3: outside quotes a backslash followed by a character X other than
\* newline yields X alone: the backslash is dropped and X is emitted without
\* opening or closing a quote, also when X is a quote or a backslash
\* ('hello\ there' becomes 'hello there').
C3_BackslashOutsideQuotes ==
    /\ [][C3_Step]_vars
    /\ []((rq_pc = "done" /\ s = HelloThere)
            => name = <<"h", "e", "l", "l", "o", " ", "t", "h", "e", "r", "e">>)

\* witness of C3: \'\" has become '" and no quote is open
C3_Witness ==
    /\ rq_pc = "done"
    /\ s = <<BS, SQ, BS, DQ>>
    /\ name = <<SQ, DQ>>
    /\ state = "None"

C4_Step ==
    /\ (Scanning /\ state = "None" /\ ~is_escaped /\ Head(chars) = SQ)
         => name' = name /\ chars' = Tail(chars) /\ state' = "Single"
    /\ (Scanning /\ state = "Single" /\ Head(chars) # SQ)
         => Emits(Head(chars)) /\ state' = "Single"
    /\ (Scanning /\ state = "Single" /\ Head(chars) = SQ)
         => name' = name /\ chars' = Tail(chars) /\ state' = "None"

\* C4: every character between an opening unescaped single quote and the
\* next single quote is emitted unchanged (backslash, double quote, '$' and
\* newline included), the two delimiting quotes are dropped, and a backslash
\* inside single quotes never escapes the closing quote.
C4_SingleQuotesLiteral ==
    /\ [][C4_Step]_vars
    /\ []((rq_pc = "done" /\ s = <<SQ>> \o HelloThere \o <<SQ>>) => name = HelloThere)

\* witness of C4: '\"$' has kept everything but the two quotes
C4_Witness ==
    /\ rq_pc = "done"
    /\ s = <<SQ, BS, DQ, "$", SQ>>
    /\ name = <<BS, DQ, "$">>
    /\ state = "None"

C5_Common ==
    /\ (Scanning /\ state = "None" /\ ~is_escaped /\ Head(chars) = DQ)
         => name' = name /\ chars' = Tail(chars) /\ state' = "Double"
    /\ (Scanning /\ state = "Double" /\ ~is_escaped /\ Head(chars) = BS
          /\ Following = Some(DQ))
         => name' = name /\ chars' = Tail(chars) /\ state' = "Double" /\ is_escaped'
    /\ (Scanning /\ state = "Double" /\ is_escaped)
         => Head(chars) = DQ /\ Emits(DQ) /\ state' = "Double"
    /\ (Scanning /\ state = "Double" /\ ~is_escaped /\ Head(chars) = DQ)
         => name' = name /\ chars' = Tail(chars) /\ state' = "None"
    /\ (Scanning /\ state = "Double" /\ ~is_escaped /\ Head(chars) \notin {BS, DQ})
         => Emits(Head(chars)) /\ state' = "Double"

\* the character before Head(chars) in s is a backslash that was emitted
AfterLiteralBackslash ==
    /\ Scanning /\ state = "Double" /\ ~is_escaped
    /\ Len(s) > Len(chars)
    /\ s[Len(s) - Len(chars)] = BS
    /\ name # <<>> /\ name[Len(name)] = BS

C5_Examples ==
    (rq_pc = "done")
        => /\ (s = <<DQ>> \o HelloThere \o <<DQ>>) => name = HelloThere
           /\ (s = <<DQ, SQ, "f", "o", "o", SQ, " ", BS, DQ, "b", "a", "r", BS, DQ, DQ>>)
                => name = <<SQ, "f", "o", "o", SQ, " ", DQ, "b", "a", "r", DQ>>

\* C5 as claimed: inside double quotes a backslash escapes only a double
\* quote; every other backslash is emitted literally together with the
\* character after it.
C5_Original ==
    /\ [][/\ C5_Common
          /\ (Scanning /\ state = "Double" /\ ~is_escaped /\ Head(chars) = BS
                /\ Following # Some(DQ))
               => Emits(BS) /\ state' = "Double"
          /\ AfterLiteralBackslash => Emits(Head(chars)) /\ state' = "Double"]_vars
    /\ []C5_Examples

\* C5: inside double quotes a backslash before a double quote emits the
\* quote without closing, a backslash before a newline is deleted together
\* with the newline, and every other backslash is emitted literally; the
\* character after such a backslash is then read as if no backslash preceded
\* it.  Single quotes are literal and the delimiting double quotes dropped.
C5_DoubleQuotes ==
    /\ [][/\ C5_Common
          /\ (Scanning /\ state = "Double" /\ ~is_escaped /\ Head(chars) = BS
                /\ Following = Some(NL))
               => /\ name' = name
                  /\ chars' = Tail(Tail(chars))
                  /\ state' = "Double"
                  /\ ~is_escaped'
          /\ (Scanning /\ state = "Double" /\ ~is_escaped /\ Head(chars) = BS
                /\ Following \notin {Some(DQ), Some(NL)})
               => Emits(BS) /\ state' = "Double"]_vars
    /\ []C5_Examples

\* witness of C5: "'foo' \"bar\"" has become 'foo' "bar"
C5_Witness ==
    /\ rq_pc = "done"
    /\ s = <<DQ, SQ, "f", "o", "o", SQ, " ", BS, DQ, "b", "a", "r", BS, DQ, DQ>>
    /\ name = <<SQ, "f", "o", "o", SQ, " ", DQ, "b", "a", "r", DQ>>
    /\ state = "None"

C6_Step ==
    /\ (Scanning /\ state \in {"None", "Double"} /\ ~is_escaped /\ Head(chars) = BS
          /\ Following = Some(NL))
         => /\ name' = name
            /\ chars' = Tail(Tail(chars))
            /\ state' = state
            /\ ~is_escaped'
    /\ (Scanning /\ state = "Single" /\ Head(chars) \in {BS, NL})
         => Emits(Head(chars)) /\ state' = "Single"

\* C6: an unescaped backslash immediately followed by a newline produces no
\* output character outside quotes and inside double quotes; inside single
\* quotes both characters are kept.
C6_LineContinuation ==
    /\ [][C6_Step]_vars
    /\ []((rq_pc = "done")
            => /\ (s = <<"a", BS, NL, "a">>) => name = <<"a", "a">>
               /\ (s = <<DQ, BS, NL, "a", DQ>>) => name = <<"a">>
               /\ (s = <<SQ, BS, NL, SQ>>) => name = <<BS, NL>>)

\* witness of C6: "\<newline>a" has become a
C6_Witness ==
    /\ rq_pc = "done"
    /\ s = <<DQ, BS, NL, "a", DQ>>
    /\ name = <<"a">>

----------------------------------------------------------------------------
(* The fields of a pipeline that expansion has to leave alone: every       *)
(* whitespace field, the lhs of an assignment, the type and input_fd of a  *)
(* redirection, the bang.                                                  *)

RedirectionFrame(r) ==
    IF r.tag = "File"
    THEN <<r.tag, r.whitespace, r.input_fd, r.ty, r.target.whitespace>>
    ELSE <<r.tag, r.whitespace, r.input_fd, r.ty, r.end.whitespace, r.content.whitespace>>

AssignmentFrame(a) ==
    <<a.whitespace, a.lhs, IF a.rhs = None THEN None ELSE Some(a.rhs[1].whitespace)>>

PrefixFrame(p) ==
    IF p.tag = "Redirection" THEN RedirectionFrame(p.r) ELSE AssignmentFrame(p.a)

SuffixFrame(x) ==
    IF x.tag = "Redirection" THEN RedirectionFrame(x.r) ELSE <<x.w.whitespace>>

CommandFrame(c) ==
    IF c.tag # "Simple" THEN <<c.tag>>
    ELSE [name |-> IF c.cmd.name = None THEN None ELSE Some(c.cmd.name[1].whitespace),
          prefixes |-> [i \in 1..Len(c.cmd.prefixes) |-> PrefixFrame(c.cmd.prefixes[i])],
          suffixes |-> [i \in 1..Len(c.cmd.suffixes) |-> SuffixFrame(c.cmd.suffixes[i])]]

PipelineFrame(p) ==
    [bang |-> p.bang,
     head |-> CommandFrame(p.sequence.head),
     tail |-> [i \in 1..Len(p.sequence.tail) |->
                  <<p.sequence.tail[i].pipe, p.sequence.tail[i].linebreak,
                    CommandFrame(p.sequence.tail[i].cmd)>>]]

\* the words of a pipeline that expansion has something to return for: a
\* suffix word that is line continuations only is dropped, not expanded
CommandOfWords(c) ==
    IF c.tag # "Simple" THEN c
    ELSE [c EXCEPT !.cmd.suffixes = KeptSuffixes(c.cmd.suffixes)]

PipelineOfWords(p) ==
    [p EXCEPT !.sequence.head = CommandOfWords(p.sequence.head),
              !.sequence.tail = [i \in 1..Len(p.sequence.tail) |->
                                    [p.sequence.tail[i] EXCEPT
                                        !.cmd = CommandOfWords(p.sequence.tail[i].cmd)]]]

PipelineExpanded == call_pc = "returned" /\ call.fn = "Pipeline::expand"

\* C11: a pipeline that expand returns has the whitespace fields of its
\* words, redirections and assignments, the lhs of its assignments, the type
\* and input_fd of its redirections and its bang as they were before.
C11_WhitespaceKept ==
    (PipelineExpanded /\ ret.ok) =>
        PipelineFrame(ret.value) = PipelineFrame(PipelineOfWords(call.arg))

\* a command with a bang, an assignment and two suffixes, of which the
\* double-quoted $X has two blanks before it, was expanded to other words
C11_Witness ==
    /\ PipelineExpanded
    /\ ret.ok
    /\ call.arg.bang # None
    /\ call.arg.sequence.tail # <<>>
    /\ LET before == call.arg.sequence.head.cmd
           after == ret.value.sequence.head.cmd
       IN /\ Len(before.prefixes) = 1
          /\ before.prefixes[1].tag = "Assignment"
          /\ before.prefixes[1].a.rhs # None
          /\ Len(after.suffixes) = 2
          /\ after.suffixes[1].tag = "Redirection"
          /\ after.suffixes[2].tag = "Word"
          /\ after.suffixes[2].w.whitespace = <<" ", " ">>
          /\ Len(before.suffixes) = 2
          /\ after.suffixes[2].w.name # before.suffixes[2].w.name
          /\ after.name # before.name

\* C12: Pipeline::expand returns for commands of every kind, with as many
\* commands as the pipeline had, each of the kind it had.
C12_ExpandEveryCommand ==
    PipelineExpanded =>
        /\ ret.ok
        /\ Len(ret.value.sequence.tail) = Len(call.arg.sequence.tail)
        /\ ret.value.sequence.head.tag = call.arg.sequence.head.tag
        /\ \A i \in 1..Len(call.arg.sequence.tail) :
              ret.value.sequence.tail[i].cmd.tag = call.arg.sequence.tail[i].cmd.tag

\* C13: no step of the expansion of a word changes the engine: its variable
\* values and its last_status are after the step what they were before.
C13_EngineReadOnly == [][env' = env]_vars

\* a word with $? and $X, X set, was expanded
C13_Witness ==
    /\ pc = "done"
    /\ \E i \in 1..Len(orig.expansions) :
          orig.expansions[i].kind = "Parameter" /\ orig.expansions[i].name = <<"?">>
    /\ \E i \in 1..Len(orig.expansions) :
          /\ orig.expansions[i].kind = "Parameter"
          /\ orig.expansions[i].name = <<"X">>
          /\ get_value_of(<<"X">>) \notin { None, Some(<<>>) }
    /\ word.name # orig.name

\* and-or list number i of a list, counted from 0
AndOrAt(list, i) == IF i = 0 THEN list.head ELSE list.tail[i].and_or_list

ListLinearized == call_pc = "returned" /\ call.fn = "list_with_separator"

\* C16: for a list with n tail entries list_with_separator returns n + 1
\* pairs: and-or list number i with the separator of tail entry i + 1, the
\* last one with separator_op, or with Sync when there is none; for a
\* comment it returns no pair.
C16_ListWithSeparator ==
    ListLinearized =>
        IF call.arg.tag = "Comment" THEN ret.value = <<>>
        ELSE LET list == call.arg.list
                 n == Len(list.tail)
             IN /\ Len(ret.value) = n + 1
                /\ \A i \in 0..(n - 1) :
                      ret.value[i + 1] = <<AndOrAt(list, i), list.tail[i + 1].sep>>
                /\ ret.value[n + 1][1] = AndOrAt(list, n)
                /\ call.arg.separator_op # None =>
                      ret.value[n + 1][2] = call.arg.separator_op[1]
                /\ call.arg.separator_op = None =>
                      ret.value[n + 1][2].tag = "Sync"

\* `a & b ; a` without a trailing separator was linearized
C16_Witness ==
    /\ ListLinearized
    /\ call.arg.tag = "List"
    /\ call.arg.separator_op = None
    /\ Len(call.arg.list.tail) = 2
    /\ call.arg.list.tail[1].sep.tag = "Async"
    /\ call.arg.list.tail[2].sep.tag = "Sync"
    /\ call.arg.list.head # call.arg.list.tail[1].and_or_list
    /\ Len(ret.value) = 3

TreeChecked == call_pc = "returned" /\ call.fn = "is_ok"

\* C17: is_ok is true exactly when no character of unparsed is other than
\* whitespace, whatever leading and commands are.
C17_IsOk ==
    TreeChecked =>
        /\ ret.value = TRUE <=>
              ~\E i \in 1..Len(call.arg.unparsed) :
                   call.arg.unparsed[i] \in { "a", ")" }
        /\ ret.value = is_ok([leading |-> [newlines |-> None], commands |-> None,
                              unparsed |-> call.arg.unparsed])

\* a tree with commands whose unparsed rest is blank, newline, `)` was
\* found not ok
C17_Witness ==
    /\ TreeChecked
    /\ call.arg.commands # None
    /\ call.arg.unparsed = <<" ", NL, ")">>
    /\ ret.value = FALSE

PromptExpanded == call_pc = "returned" /\ call.fn = "expand_prompt"

\* the text of the prompt word with its parameters replaced
PromptParametersReplaced == Substituted(call.arg.word, {"Parameter"}, 0)

\* C18: expand_prompt returns the text of the word with every Parameter
\* annotation replaced by its value and then every `\w` replaced by the
\* tilde-compressed working directory; tildes and quotes stay; without a
\* `\w` in the parameter-expanded text the result is that text, whether or
\* not there is a working directory.
C18_ExpandPrompt ==
    PromptExpanded =>
        /\ ret.ok
        /\ ~Contains(PromptParametersReplaced, PromptCwd) =>
              ret.value = Ok(PromptParametersReplaced)
        /\ (Contains(PromptParametersReplaced, PromptCwd) /\ call.arg.PWD # None) =>
              ret.value = Ok(Replace(PromptParametersReplaced, PromptCwd,
                                     compress_tilde(call.arg.PWD[1])))

\* a prompt "~$X with X = `\w`, in a directory below HOME, came out as "~~/m
C18_Witness ==
    /\ PromptExpanded
    /\ call.arg.word.name = <<DQ, "~", "$", "X">>
    /\ Len(call.arg.word.expansions) = 2
    /\ get_value_of(<<"X">>) = Some(PromptCwd)
    /\ call.arg.PWD = Some(<<"/", "h", "/", "m">>)
    /\ ret.value = Ok(<<DQ, "~", "~", "/", "m">>)

PathCompressed == call_pc = "returned" /\ call.fn = "String::expand"

\* C19: with HOME set the path comes back with a leading HOME written as
\* `~`, and unchanged when it does not start with HOME; without HOME the
\* result is the error NoHome.
C19_TildeCompression ==
    PathCompressed =>
        LET path == call.arg.self
            home == call.arg.HOME
        IN IF home = None THEN ret.value = Err(Error("NoHome", <<>>))
           ELSE IF StartsWith(path, home[1])
           THEN ret.value = Ok(<<"~">> \o SubSeq(path, Len(home[1]) + 1, Len(path)))
           ELSE ret.value = Ok(path)

\* the lines read so far, one below the other
TypedText == Join(typed, <<NL>>)

C14_Step ==
    /\ (repl_pc = "while" /\ IsIncomplete(parse(line, FALSE))) =>
          \/ repl_pc' = "while" /\ \E l \in Lines :
                                      /\ typed' = Append(typed, l)
                                      /\ line' = line \o <<NL>> \o l
          \/ repl_pc' = "dispatch" /\ line' = <<>>
          \/ repl_pc' = "returned" /\ IsIo(run_result'[1])
          \/ repl_pc' = "panicked" /\ run_result' = None
    /\ (repl_pc = "while" /\ ~IsIncomplete(parse(line, FALSE))) =>
          repl_pc' = "dispatch" /\ line' = line

\* C14: while the text read so far is incomplete the REPL reads one more
\* line and appends it after a newline, so that the text is the lines read,
\* joined by newlines; it leaves the loop as soon as the text is not
\* incomplete; Incomplete is neither returned by run nor written.
C14_IncompleteReadsMore ==
    /\ [][C14_Step]_vars
    /\ [](repl_pc = "while" => line = TypedText)
    /\ []((repl_pc = "dispatch" /\ line # <<>>) =>
             line = TypedText /\ ~IsIncomplete(parse(line, FALSE)))
    /\ [](run_result # None => ~IsIncomplete(run_result[1]))
    /\ []((written # None /\ StartsWith(written[1], PshPrefix)) =>
             \E r \in ExecuteResults(history[Len(history)]) :
                r.tag = "Err" /\ ~IsIncomplete(r) /\ written[1] = writeln_psh(r.e))

\* `(`, an empty line and `)` were read and the command `(\n\n)` is about to
\* be handled
C14_Witness ==
    /\ repl_pc = "dispatch"
    /\ typed = << <<"(">>, <<>>, <<")">> >>
    /\ line = <<"(", NL, NL, ")">>

\* C15: run does not return because of a line that has a syntax error,
\* whatever the mode flags are.
C15_ErrorsReported ==
    ~(/\ repl_pc = "returned"
      /\ typed # <<>>
      /\ run_result[1].e.variant = "SyntaxError")

\* the step is the handling of the key `key`
KeyStep(key) == rl_pc = "loop" /\ rl_pc' \in { "loop", "break" } /\ last_key' = key

C20_Step ==
    /\ (KeyStep("Enter") /\ ~rl_state.expand_abbreviations) =>
          rl_state'.line = rl_state.line
    /\ (KeyStep("Space") /\ ~rl_state.expand_abbreviations) =>
          rl_state'.line = InsertStr(rl_state.line, int(rl_state.index), <<" ">>)
    /\ (KeyStep("Enter") /\ last_flag_key = "ctrl-Space") =>
          rl_state'.line = rl_state.line /\ rl_pc' = "break"

\* C20: Space and Enter substitute an abbreviation only while
\* expand_abbreviations is true; when ctrl-space is the last of ctrl-space,
\* character and Backspace, the flag is false, and Enter leaves the line as
\* typed and read_line returns it.
C20_CtrlSpaceDisables ==
    /\ [][C20_Step]_vars
    /\ [](last_flag_key = "ctrl-Space" => ~rl_state.expand_abbreviations)
    /\ []((rl_pc = "returned" /\ last_key = "Enter" /\ last_flag_key = "ctrl-Space"
           /\ ~IsIo(rl_result[1])) =>
             rl_result = Some(Ok(rl_state.line)))

\* `g`, ctrl-space, Enter with the abbreviation g = git: `g ` was returned
C20_Witness ==
    /\ rl_pc = "returned"
    /\ last_key = "Enter"
    /\ last_flag_key = "ctrl-Space"
    /\ <<"g">> \in DOMAIN abbreviations
    /\ rl_result = Some(Ok(<<"g", " ">>))

\* a step of the loop of read_line that handles ^W
CtrlWStep ==
    rl_pc = "loop" /\ rl_pc' \in { "loop", "break", "panicked" } /\ last_key' = "^W"

\* where ^W is to delete from: 0 when the character before the cursor is a
\* space, otherwise the position of the nearest space before the cursor, and
\* 0 when there is none
CtrlWTarget(l, i) ==
    LET spaces == { p \in 0..(i - 1) : p < Len(l) /\ l[p + 1] = " " }
    IN IF spaces = {} \/ (i - 1) \in spaces THEN 0
       ELSE CHOOSE p \in spaces : \A q \in spaces : q <= p

C21_Step ==
    CtrlWStep =>
        /\ rl_pc' # "panicked"
        /\ rl_state'.index = usize(CtrlWTarget(rl_state.line, int(rl_state.index)))
        /\ rl_state'.line = RemoveRange(rl_state.line, int(rl_state'.index),
                                        int(rl_state.index))

\* C21: ^W removes exactly the bytes of the line in [k, index) and sets the
\* index to k, k being 0 when the cursor is on a space, else the position of
\* the nearest space to the left of the cursor, else 0; the rest of the line
\* is unchanged, and ^W at index 0 changes nothing.
C21_CtrlWDeletes == [][C21_Step]_vars

\* Claims about read_full_command.

\* a continuation read returned to read_full_command
ContinuationRead ==
    \/ fc_pc = "in_read_continuation" /\ fc_pc' # "drop_panicked"
    \/ fc_pc = "read_continuation" /\ fc_pc' = "return_err"

\* the error of a cancelled read
CancelledLine == Error("CancelledLine", <<>>)

C22_Step ==
    /\ ContinuationRead =>
          /\ fc_read' # None
          /\ fc_read'[1] = Err(CancelledLine) =>
                fc_pc' = "return_ok" /\ fc_line' = <<>>
          /\ fc_read'[1].tag = "Ok" =>
                fc_pc' = "while" /\ fc_line' = fc_line \o fc_read'[1].v
          /\ (fc_read'[1].tag = "Err" /\ fc_read'[1] # Err(CancelledLine)) =>
                /\ fc_pc' = "return_err"
                /\ fc_err' = Some(fc_read'[1].e)
                /\ fc_line' = fc_line
    /\ (fc_pc = "return_ok" /\ fc_pc' = "returned") => fc_result' = Some(Ok(fc_line))
    /\ (fc_pc = "return_err" /\ fc_pc' = "returned") =>
          fc_result' = Some(Err(fc_err[1]))

\* C22: a continuation read that is cancelled ends the loop of
\* read_full_command with the line emptied, and the function returns
\* Ok(""): nothing of what was accumulated is returned, and CancelledLine is
\* never returned; any other error of a continuation read is returned as it
\* is.
C22_CancelDiscards ==
    /\ [][C22_Step]_vars
    /\ [](fc_result # Some(Err(CancelledLine)))
    /\ [](fc_err # Some(CancelledLine))
    /\ []((fc_pc = "returned" /\ fc_read = Some(Err(CancelledLine))) =>
             fc_result = Some(Ok(<<>>)))
    /\ []((fc_pc = "returned" /\ fc_read # None /\ fc_read[1].tag = "Err"
           /\ fc_read[1] # Err(CancelledLine)) =>
             fc_result = Some(fc_read[1]))
    /\ []((fc_pc = "return_ok" /\ fc_line # <<>>) =>
             ~IsIncomplete(parse(fc_line, FALSE)))

\* `(` and `a` were read, the next continuation read was cancelled and
\* read_full_command returned Ok("")
C22_Witness ==
    /\ fc_pc = "returned"
    /\ fc_typed = << <<"(">>, <<"a">> >>
    /\ fc_read = Some(Err(CancelledLine))
    /\ fc_result = Some(Ok(<<>>))

\* C25: the terminal is in raw mode exactly while at least one RawMode is
\* alive, nested ones included, and is out of raw mode after the last one is
\* dropped.
C25_RawWhileGuarded ==
    fc_pc \notin { "panicked", "drop_panicked" } => (raw_mode <=> (guards > 0))

\* Claims about what read_line returns.

\* the step is one event of read_line and the arm that handles it
KeyHandled == rl_pc = "loop" /\ rl_pc' \in { "loop", "break", "panicked" }

C23_Step ==
    /\ (KeyHandled /\ last_key' = "^C") =>
          IF ps1 /\ rl_state.line = <<>>
          THEN rl_state' = rl_state /\ rl_pc' = "loop"
          ELSE rl_state'.cancelled /\ rl_pc' = "break"
    /\ (KeyHandled /\ last_key' # "^C") =>
          ~rl_state'.cancelled
    /\ (KeyHandled /\ last_key' = "^D") =>
          IF ps1 /\ rl_state.line = <<>>
          THEN rl_state'.line = ExitLine /\ rl_pc' = "break"
          ELSE rl_state' = rl_state /\ rl_pc' = "loop"

\* C23: read_line returns Err(CancelledLine) exactly when ^C ended the read
\* of a continuation line; at the primary prompt ^C on an empty line is
\* ignored, ^C on a non-empty line returns Ok(""); a read that ^C did not end
\* returns Ok(line), the line being `exit` after ^D on an empty primary
\* line.  (An error of the terminal is returned as it is.)
C23_CancelledLine ==
    /\ [][C23_Step]_vars
    /\ []((rl_pc = "returned" /\ ~IsIo(rl_result[1])) =>
             /\ rl_result = Some(Err(Error("CancelledLine", <<>>))) <=> (last_key = "^C" /\ ~ps1)
             /\ (last_key = "^C" /\ ps1) =>
                   rl_state.line # <<>> /\ rl_result = Some(Ok(<<>>))
             /\ last_key # "^C" => rl_result = Some(Ok(rl_state.line)))

\* ^C on the non-empty primary line `g`: Ok("") was returned
C23_Witness ==
    /\ rl_pc = "returned"
    /\ ps1
    /\ last_key = "^C"
    /\ rl_state.line = <<"g">>
    /\ rl_result = Some(Ok(<<>>))

\* C24: while and after read_line handles events the index stays inside the
\* line, 0 <= index <= line.len(), and no insertion, removal or slice at
\* index or index - 1 is out of bounds (none panics).
C24_IndexInBounds ==
    rl_pc # "idle" =>
        /\ rl_pc # "panicked"
        /\ Fits(rl_state.index)
        /\ int(rl_state.index) <= Len(rl_state.line)

\* the annotations Word::expand defers, in their order
Deferred(w) == SelectSeq(w.expansions, LAMBDA e : e.kind \in { "Command", "Arithmetic" })

\* C26: an annotation that Word::expand leaves in word.expansions has a
\* range inside the expanded name, and the range delimits the text it
\* delimited in the word before expansion.
C26_DeferredRangesValid ==
    (pc = "done") =>
        /\ Len(Deferred(word)) = Len(Deferred(orig))
        /\ \A i \in 1..Len(Deferred(word)) :
              /\ RangeInBounds(word.name, Deferred(word)[i].range)
              /\ Slice(word.name, Deferred(word)[i].range)
                    = Slice(orig.name, Deferred(orig)[i].range)

\* Claims about SimpleCommand::expand.

\* the text is zero or more backslash-newline pairs
EscapedNewlinesOnly(str) ==
    /\ Len(str) % 2 = 0
    /\ \A i \in 1..Len(str) : str[i] = (IF i % 2 = 1 THEN BS ELSE NL)

\* the suffixes that are to stay
ToStay(suffixes) ==
    SelectSeq(suffixes, LAMBDA x : x.tag = "Redirection" \/ ~EscapedNewlinesOnly(x.w.name))

\* C27: SimpleCommand::expand drops exactly the Word suffixes whose text is
\* escaped newlines only (the empty text included); the other suffixes, the
\* redirections among them, are expanded and keep their order; the name and
\* the prefixes are expanded and all kept.
C27_SuffixRemoval ==
    (PipelineExpanded /\ ret.ok /\ call.arg.sequence.head.tag = "Simple") =>
        LET before == call.arg.sequence.head.cmd
            after == ret.value.sequence.head.cmd
            stay == ToStay(before.suffixes)
        IN /\ after.suffixes = [i \in 1..Len(stay) |-> CmdSuffix_expand(stay[i]).value]
           /\ after.name = OptionWord_expand(before.name).value
           /\ after.prefixes = [i \in 1..Len(before.prefixes) |->
                                  CmdPrefix_expand(before.prefixes[i]).value]

\* of the suffixes `\<newline>` and `\<newline>/` the first was dropped and
\* the second kept and expanded to `/`
C27_Witness ==
    /\ PipelineExpanded
    /\ ret.ok
    /\ call.arg.sequence.head.tag = "Simple"
    /\ LET before == call.arg.sequence.head.cmd
           after == ret.value.sequence.head.cmd
       IN /\ Len(before.suffixes) = 2
          /\ before.suffixes[1].tag = "Word"
          /\ before.suffixes[1].w.name = <<BS, NL>>
          /\ before.suffixes[2].tag = "Word"
          /\ before.suffixes[2].w.name = <<BS, NL, "/">>
          /\ Len(after.suffixes) = 1
          /\ after.suffixes[1].w.name = <<"/">>
          /\ before.name # None
          /\ Len(after.prefixes) = 1

\* Claims about the state Repl::run keeps across its iterations.

\* the line is handled by the tokenize, lex or ast mode
DebugHandled == (modes.tokenize \/ modes.lex \/ modes.ast) /\ line # ExitLine

C28_Step ==
    /\ last_status' # last_status =>
          /\ repl_pc = "dispatch"
          /\ ~DebugHandled
          /\ history' = Append(history, line)
          /\ written' = None
          /\ last_status' # None
          /\ last_status'[1] # <<>>
          /\ Ok(last_status'[1]) \in ExecuteResults(line)
    /\ (repl_pc = "dispatch" /\ DebugHandled) =>
          history' = history /\ last_status' = last_status
    /\ (repl_pc = "dispatch" /\ written' # None) => last_status' = last_status
    /\ (repl_pc = "dispatch" /\ repl_pc' = "returned") => last_status' = last_status

\* C28: last_status changes only in an iteration that executes the line and
\* gets a non-empty list of statuses, and then it is that list; an empty
\* list, a failed execution and the tokenize, lex and ast modes leave it,
\* and the modes append nothing to the history.
C28_LastStatus == [][C28_Step]_vars

\* the statuses 1, 0 of the first line are still there after the execution
\* of the second line failed
C28_Witness ==
    /\ repl_pc = "loop"
    /\ Len(history) = 2
    /\ written = Some(writeln_psh(Error("UnknownCommand", history[2])))
    /\ last_status = Some(<<1, 0>>)

====
